---- MODULE Spec2Model ----
(***************************************************************************)
(* The OCR text-correction pipeline of services/ultimate_ocr_service.py     *)
(* (class UltimateOCRService).  A text is a sequence of characters; every  *)
(* stage is a pure function on texts, built from re.sub calls that are     *)
(* modelled pattern by pattern.                                            *)
(*                                                                         *)
(* A character is a one-character string; the newline is written "NL",    *)
(* the tab "TAB", the double quote "DQ", the backtick "BT" and the         *)
(* apostrophe "AP".                                                        *)
(***************************************************************************)
EXTENDS Integers, Sequences, FiniteSets, TLC

VARIABLES
    input,    \* the argument of the call
    text,     \* the local variable `text` of the running call, then its result
    pc,       \* "idle": not called yet, "running": in the pipeline, "done": returned
    op,       \* the function that was called ("none" before the call)
    stages,   \* the number of correction stages the call has invoked so far
    round,    \* 1: the call on the input, 2: the call on the first call's result
    split,    \* what format_titles_and_paragraphs returned in this call
    file,     \* the file behind the path given to extract_text_from_path
    dpc,      \* where the call of extract_text_from_path is ("off": no such call)
    route,    \* the extractor the path was sent to: "pdf", "image" or "none"
    ocr_calls,\* how many times the OCR engine (pytesseract) has been invoked
    result,   \* the dict the call of extract_text_from_path returned
    attempts, \* the image read by ocr_service and the engine's answer per candidate
    spc,      \* where the call of ocr_service.extract_text_from_path is ("off": none)
    cand,     \* how many (image variant, config) candidates the loop has tried
    best_text,   \* the local variable best_text
    best_score,  \* the local variable best_score
    selections,  \* what the selection loop ended with, for each call so far
    ocr_data,    \* the dict of word detections given to process_ocr_result
    filtered,    \* the text blocks process_ocr_result returned
    grouped,     \* the lines group_text_blocks returned
    bpc,         \* where the processing of ocr_data is ("off": none)
    request,     \* the arguments of generate_questions_from_content and the environment
    qpc,         \* where the call of generate_questions_from_content is ("off": none)
    attempt,     \* the loop variable `attempt`
    replies,     \* what the language model gave at each call made so far
    answer       \* what generate_questions_from_content returned

vars == <<input, text, pc, op, stages, round, split, file, dpc, route, ocr_calls,
          result, attempts, spc, cand, best_text, best_score, selections,
          ocr_data, filtered, grouped, bpc, request, qpc, attempt, replies, answer>>

\* The variables of the candidate selection of ocr_service.
selvars == <<attempts, spc, cand, best_text, best_score, selections>>

\* The variables of the word filter and line grouping of ocr_service.
blockvars == <<ocr_data, filtered, grouped, bpc>>

\* The variables of the question generation of qgen_service.
qvars == <<request, qpc, attempt, replies, answer>>

\* The variables of the two together.
restvars == <<blockvars, qvars>>

\* The variables outside the correction pipeline: those of the call of
\* extract_text_from_path and those of the candidate selection.
docvars == <<file, dpc, route, ocr_calls, result, selvars, restvars>>

(***************************************************************************)
(* Characters and the character classes of Python's re module (ASCII).     *)
(***************************************************************************)
NL == "NL"
TAB == "TAB"
DQ == "DQ"
BT == "BT"
AP == "AP"

ToUpperMap ==
    ("a" :> "A") @@ ("b" :> "B") @@ ("c" :> "C") @@ ("d" :> "D") @@
    ("e" :> "E") @@ ("f" :> "F") @@ ("g" :> "G") @@ ("h" :> "H") @@
    ("i" :> "I") @@ ("j" :> "J") @@ ("k" :> "K") @@ ("l" :> "L") @@
    ("m" :> "M") @@ ("n" :> "N") @@ ("o" :> "O") @@ ("p" :> "P") @@
    ("q" :> "Q") @@ ("r" :> "R") @@ ("s" :> "S") @@ ("t" :> "T") @@
    ("u" :> "U") @@ ("v" :> "V") @@ ("w" :> "W") @@ ("x" :> "X") @@
    ("y" :> "Y") @@ ("z" :> "Z")

LowerLetters == DOMAIN ToUpperMap
UpperLetters == {ToUpperMap[c] : c \in LowerLetters}
ToLowerMap == [u \in UpperLetters |-> CHOOSE c \in LowerLetters : ToUpperMap[c] = u]
Digits == {"0", "1", "2", "3", "4", "5", "6", "7", "8", "9"}
Whitespace == {" ", NL, TAB}                       \* \s
PunctMarks == {".", ",", "!", "?", ";", ":"}        \* [.,!?;:]
SentenceEnd == {".", "!", "?"}                      \* [.!?]
Brackets == {"[", "]", "{", "}", "<", ">"}          \* [\[\]{}<>]

IsLower(c) == c \in LowerLetters                    \* [a-z]
IsUpper(c) == c \in UpperLetters                    \* [A-Z]
IsLetter(c) == IsLower(c) \/ IsUpper(c)             \* [a-zA-Z]
IsDigit(c) == c \in Digits                          \* [0-9]
IsWordChar(c) == IsLetter(c) \/ IsDigit(c) \/ c = "_"   \* \w
IsSpace(c) == c \in Whitespace
IsPunct(c) == c \in PunctMarks
IsSentenceEnd(c) == c \in SentenceEnd

upper(c) == IF IsLower(c) THEN ToUpperMap[c] ELSE c      \* str.upper, one character
lower(c) == IF IsUpper(c) THEN ToLowerMap[c] ELSE c      \* str.lower, one character
LowerText(s) == [i \in 1..Len(s) |-> lower(s[i])]        \* str.lower
SameNoCase(c, d) == lower(c) = lower(d)                  \* re.IGNORECASE comparison

\* The character at position i, or "" outside the text.
At(s, i) == IF i >= 1 /\ i <= Len(s) THEN s[i] ELSE ""

\* The characters of s from position i up to, not including, position j.
Slice(s, i, j) == SubSeq(s, i, j - 1)

\* The first position >= i that holds no whitespace (Len(s) + 1 if none): \s*
SkipSpace(s, i) ==
    LET skip[k \in i..(Len(s) + 1)] ==
            IF k <= Len(s) /\ IsSpace(s[k]) THEN skip[k + 1] ELSE k
    IN  IF i > Len(s) THEN i ELSE skip[i]

\* The first position >= i that holds no word character: \w*
SkipWord(s, i) ==
    LET skip[k \in i..(Len(s) + 1)] ==
            IF k <= Len(s) /\ IsWordChar(s[k]) THEN skip[k + 1] ELSE k
    IN  IF i > Len(s) THEN i ELSE skip[i]

\* \b at position i: exactly one of the characters before and at i is a word character.
WordBoundary(s, i) == IsWordChar(At(s, i - 1)) # IsWordChar(At(s, i))

\* s[i..] starts with the literal lit (compared without case when nocase).
StartsWith(s, i, lit, nocase) ==
    /\ i + Len(lit) - 1 <= Len(s)
    /\ \A k \in 1..Len(lit) :
          IF nocase THEN SameNoCase(s[i + k - 1], lit[k]) ELSE s[i + k - 1] = lit[k]

(***************************************************************************)
(* re.sub(pattern, repl, s): scan s from the left; where the pattern       *)
(* matches from position i up to position j (MatchEnd(s, i) = j > i), emit *)
(* Repl(s, i, j) and go on at j; elsewhere copy the character and go on at *)
(* i + 1.  MatchEnd(s, i) = 0 means no match starts at i.  No pattern of   *)
(* the service matches the empty string.                                   *)
(***************************************************************************)
ReSub(s, MatchEnd(_, _), Repl(_, _, _)) ==
    LET from[i \in 1..(Len(s) + 1)] ==
            IF i > Len(s) THEN << >>
            ELSE LET j == MatchEnd(s, i)
                 IN  IF j > i THEN Repl(s, i, j) \o from[j]
                     ELSE <<s[i]>> \o from[i + 1]
    IN  from[1]

(***************************************************************************)
(* Stage 1: fix_character_substitutions (self.char_patterns).              *)
(***************************************************************************)
\* r'\b0\b' -> 'O'
StandaloneZeroEnd(s, i) ==
    IF s[i] = "0" /\ WordBoundary(s, i) /\ WordBoundary(s, i + 1) THEN i + 1 ELSE 0
StandaloneZeroRepl(s, i, j) == <<"O">>

\* r'\|' -> 'I'
PipeEnd(s, i) == IF s[i] = "|" THEN i + 1 ELSE 0
PipeRepl(s, i, j) == <<"I">>

fix_character_substitutions(s) ==
    ReSub(ReSub(s, StandaloneZeroEnd, StandaloneZeroRepl), PipeEnd, PipeRepl)

(***************************************************************************)
(* Stage 2: fix_severe_distortions (every pattern with re.IGNORECASE).     *)
(***************************************************************************)
\* r'(?<![0-9])d(?![0-9])': the digit d with no digit before it and none after it
LoneDigitEnd(s, i, d) ==
    IF s[i] = d /\ ~IsDigit(At(s, i - 1)) /\ ~IsDigit(At(s, i + 1)) THEN i + 1 ELSE 0
LoneZeroEnd(s, i) == LoneDigitEnd(s, i, "0")
LoneZeroRepl(s, i, j) == <<"O">>
LoneOneEnd(s, i) == LoneDigitEnd(s, i, "1")
LoneOneRepl(s, i, j) == <<"l">>
LoneFiveEnd(s, i) == LoneDigitEnd(s, i, "5")
LoneFiveRepl(s, i, j) == <<"S">>
LoneEightEnd(s, i) == LoneDigitEnd(s, i, "8")
LoneEightRepl(s, i, j) == <<"B">>

\* r'(.)\1{2,}' -> r'\1\1': '.' is any character but the newline, the back
\* reference is compared without case, {2,} is greedy.
RunEnd(s, i) ==
    LET run[k \in i..(Len(s) + 1)] ==
            IF k <= Len(s) /\ SameNoCase(s[k], s[i]) THEN run[k + 1] ELSE k
        j == run[i]
    IN  IF s[i] # NL /\ j - i >= 3 THEN j ELSE 0
RunRepl(s, i, j) == <<s[i], s[i]>>

\* r'(\w)\s+([.,!?;:])' -> r'\1\2'
SpaceBeforePunctEnd(s, i) ==
    LET j == SkipSpace(s, i + 1)
    IN  IF IsWordChar(s[i]) /\ j > i + 1 /\ IsPunct(At(s, j)) THEN j + 1 ELSE 0
SpaceBeforePunctRepl(s, i, j) == <<s[i], s[j - 1]>>

\* r'([.,!?;:])\s+(\w)' -> r'\1 \2'
SpaceAfterPunctEnd(s, i) ==
    LET j == SkipSpace(s, i + 1)
    IN  IF IsPunct(s[i]) /\ j > i + 1 /\ IsWordChar(At(s, j)) THEN j + 1 ELSE 0
SpaceAfterPunctRepl(s, i, j) == <<s[i], " ", s[j - 1]>>

fix_severe_distortions(s) ==
    LET t1 == ReSub(s, LoneZeroEnd, LoneZeroRepl)
        t2 == ReSub(t1, LoneOneEnd, LoneOneRepl)
        t3 == ReSub(t2, LoneFiveEnd, LoneFiveRepl)
        t4 == ReSub(t3, LoneEightEnd, LoneEightRepl)
        t5 == ReSub(t4, RunEnd, RunRepl)
        t6 == ReSub(t5, SpaceBeforePunctEnd, SpaceBeforePunctRepl)
    IN  ReSub(t6, SpaceAfterPunctEnd, SpaceAfterPunctRepl)

(***************************************************************************)
(* Stage 3: fix_repeated_words (every pattern with re.IGNORECASE).         *)
(***************************************************************************)
the == <<"t", "h", "e">>
and == <<"a", "n", "d">>
of == <<"o", "f">>
to == <<"t", "o">>
is == <<"i", "s">>
are == <<"a", "r", "e">>
was == <<"w", "a", "s">>

\* After a first word s[i..i+n-1]: r'\s+W' where W is that word again,
\* compared without case.  The position after W, or 0.
AgainEnd(s, i, n, p) ==
    LET j == SkipSpace(s, p)
    IN  IF j > p /\ StartsWith(s, j, Slice(s, i, i + n), TRUE) THEN j + n ELSE 0

\* r'\b(W)\s+(W)\b' (k = 2) and r'\b(W)\s+(W)\s+(W)\b' (k = 3), the first W
\* being s[i..i+n-1].
RepeatedEnd(s, i, n, k) ==
    LET p2 == AgainEnd(s, i, n, i + n)
        p3 == IF p2 = 0 THEN 0 ELSE AgainEnd(s, i, n, p2)
        e == IF k = 2 THEN p2 ELSE p3
    IN  IF e > 0 /\ WordBoundary(s, e) THEN e ELSE 0

\* r'\b(lit)\s+(lit)\b' -> r'\1', r'\b(lit)\s+(lit)\s+(lit)\b' -> r'\1'
SubRepeatedLiteral(s, lit, k) ==
    ReSub(s,
          LAMBDA t, i : IF WordBoundary(t, i) /\ StartsWith(t, i, lit, TRUE)
                        THEN RepeatedEnd(t, i, Len(lit), k) ELSE 0,
          LAMBDA t, i, j : Slice(t, i, i + Len(lit)))

\* r'\b(\w+)\s+\1\b' -> r'\1' (k = 2), r'\b(\w+)\s+\1\s+\1\b' -> r'\1' (k = 3).
\* (\w+) is greedy and \s must follow it, so the group is the whole word at i.
SubRepeatedWord(s, k) ==
    ReSub(s,
          LAMBDA t, i : IF WordBoundary(t, i) /\ IsWordChar(t[i])
                        THEN RepeatedEnd(t, i, SkipWord(t, i) - i, k) ELSE 0,
          LAMBDA t, i, j : Slice(t, i, SkipWord(t, i)))

fix_repeated_words(s) ==
    LET t1 == SubRepeatedLiteral(s, the, 3)
        t2 == SubRepeatedLiteral(t1, the, 2)
        t3 == SubRepeatedLiteral(t2, and, 2)
        t4 == SubRepeatedLiteral(t3, of, 2)
        t5 == SubRepeatedLiteral(t4, to, 2)
        t6 == SubRepeatedLiteral(t5, is, 2)
        t7 == SubRepeatedLiteral(t6, are, 2)
        t8 == SubRepeatedLiteral(t7, was, 2)
        t9 == SubRepeatedWord(t8, 3)
    IN  SubRepeatedWord(t9, 2)

(***************************************************************************)
(* Stage 4: fix_broken_merged_words (case-sensitive).                      *)
(***************************************************************************)
\* re.sub of a literal pattern by a literal replacement
SubLiteral(s, lit, rep) ==
    ReSub(s,
          LAMBDA t, i : IF StartsWith(t, i, lit, FALSE) THEN i + Len(lit) ELSE 0,
          LAMBDA t, i, j : rep)

\* r'([a-z])([A-Z])' -> r'\1 \2'
CaseMergeEnd(s, i) == IF IsLower(s[i]) /\ IsUpper(At(s, i + 1)) THEN i + 2 ELSE 0
CaseMergeRepl(s, i, j) == <<s[i], " ", s[i + 1]>>

\* r'([.!?])\s*([a-z])' -> "\1 " + \2.upper()
SentenceStartEnd(s, i) ==
    LET j == SkipSpace(s, i + 1)
    IN  IF IsSentenceEnd(s[i]) /\ IsLower(At(s, j)) THEN j + 1 ELSE 0
SentenceStartRepl(s, i, j) == <<s[i], " ", upper(s[j - 1])>>

\* r'\s+([.,!?;:])' -> r'\1'
GapBeforePunctEnd(s, i) ==
    LET j == SkipSpace(s, i)
    IN  IF IsSpace(s[i]) /\ IsPunct(At(s, j)) THEN j + 1 ELSE 0
GapBeforePunctRepl(s, i, j) == <<s[j - 1]>>

\* r'([.,!?;:])\s*' -> r'\1 '
PunctGapEnd(s, i) == IF IsPunct(s[i]) THEN SkipSpace(s, i + 1) ELSE 0
PunctGapRepl(s, i, j) == <<s[i], " ">>

fix_broken_merged_words(s) ==
    LET t1 == ReSub(s, CaseMergeEnd, CaseMergeRepl)
        t2 == SubLiteral(t1, <<"i", "f", "y", "o", "u">>,
                             <<"i", "f", " ", "y", "o", "u">>)
        t3 == SubLiteral(t2, <<"I", "f", "y", "o", "u">>,
                             <<"I", "f", " ", "y", "o", "u">>)
        t4 == SubLiteral(t3, <<"y", "o", "u", "a", "r", "e">>,
                             <<"y", "o", "u", " ", "a", "r", "e">>)
        t5 == SubLiteral(t4, <<"y", "e", "a", "r", "s", "a", "g", "o">>,
                             <<"y", "e", "a", "r", "s", " ", "a", "g", "o">>)
        t6 == SubLiteral(t5, <<"f", "o", "r", "e", "n", "t", "r", "e", "p", "r",
                               "e", "n", "e", "u", "r", "s">>,
                             <<"f", "o", "r", " ", "e", "n", "t", "r", "e", "p",
                               "r", "e", "n", "e", "u", "r", "s">>)
        t7 == SubLiteral(t6, <<"i", "t", "i", "s">>, <<"i", "t", " ", "i", "s">>)
        t8 == ReSub(t7, SentenceStartEnd, SentenceStartRepl)
        t9 == ReSub(t8, GapBeforePunctEnd, GapBeforePunctRepl)
    IN  ReSub(t9, PunctGapEnd, PunctGapRepl)

(***************************************************************************)
(* Stage 5: fix_verb_tenses (every pattern with re.IGNORECASE).            *)
(***************************************************************************)
\* r'\blit\b' -> rep
SubWholeWord(s, lit, rep) ==
    ReSub(s,
          LAMBDA t, i : IF /\ WordBoundary(t, i)
                           /\ StartsWith(t, i, lit, TRUE)
                           /\ WordBoundary(t, i + Len(lit))
                        THEN i + Len(lit) ELSE 0,
          LAMBDA t, i, j : rep)

fix_verb_tenses(s) ==
    LET t1 == SubWholeWord(s, <<"m", "a", "k">>, <<"m", "a", "k", "e">>)
        t2 == SubWholeWord(t1, was, was)
    IN  SubWholeWord(t2, <<"w", "e", "r", "e">>, <<"w", "e", "r", "e">>)

(***************************************************************************)
(* Stage 6: clean_punctuation_symbols (case-sensitive).                    *)
(***************************************************************************)
\* str.strip()
Strip(s) ==
    LET b == SkipSpace(s, 1)
        back[k \in 0..Len(s)] == IF k >= 1 /\ IsSpace(s[k]) THEN back[k - 1] ELSE k
    IN  IF b > Len(s) THEN << >> ELSE SubSeq(s, b, back[Len(s)])

\* r'[\s]+' -> ' '
SpaceRunEnd(s, i) == IF IsSpace(s[i]) THEN SkipSpace(s, i) ELSE 0
SpaceRunRepl(s, i, j) == <<" ">>

\* the double quote and the backtick -> the double quote
QuoteEnd(s, i) == IF s[i] \in {DQ, BT} THEN i + 1 ELSE 0
QuoteRepl(s, i, j) == <<DQ>>

\* the apostrophe -> the apostrophe (both classes of the pattern hold it alone)
ApostropheEnd(s, i) == IF s[i] = AP THEN i + 1 ELSE 0
ApostropheRepl(s, i, j) == <<AP>>

\* r'[\[\]{}<>]' -> ''
\* A variant that takes the parentheses for brackets to delete as well.
BracketEnd_WithParens(s, i) == IF s[i] \in Brackets \cup {"(", ")"} THEN i + 1 ELSE 0
BracketEnd(s, i) == IF s[i] \in Brackets THEN i + 1 ELSE 0
BracketRepl(s, i, j) == << >>

\* r'\s*([.,!?;:])\s*' -> r'\1 '
PunctSpacingEnd(s, i) ==
    LET j == SkipSpace(s, i)
    IN  IF IsPunct(At(s, j)) THEN SkipSpace(s, j + 1) ELSE 0
PunctSpacingRepl(s, i, j) == <<s[SkipSpace(s, i)], " ">>

\* r'([.,!?;:])\s*([a-z])' -> r'\1 \2'
PunctLowerEnd(s, i) ==
    LET j == SkipSpace(s, i + 1)
    IN  IF IsPunct(s[i]) /\ IsLower(At(s, j)) THEN j + 1 ELSE 0
PunctLowerRepl(s, i, j) == <<s[i], " ", s[j - 1]>>

\* r'\s*\(\s*' -> ' ('
OpenParenEnd(s, i) ==
    LET j == SkipSpace(s, i)
    IN  IF At(s, j) = "(" THEN SkipSpace(s, j + 1) ELSE 0
OpenParenRepl(s, i, j) == <<" ", "(">>

\* r'\s*\)\s*' -> ') '
CloseParenEnd(s, i) ==
    LET j == SkipSpace(s, i)
    IN  IF At(s, j) = ")" THEN SkipSpace(s, j + 1) ELSE 0
CloseParenRepl(s, i, j) == <<")", " ">>

\* A variant without the closing text.strip().
clean_punctuation_symbols_NoStrip(s) ==
    LET t1 == ReSub(s, SpaceRunEnd, SpaceRunRepl)
        t2 == ReSub(t1, QuoteEnd, QuoteRepl)
        t3 == ReSub(t2, ApostropheEnd, ApostropheRepl)
        t4 == ReSub(t3, BracketEnd, BracketRepl)
        t5 == ReSub(t4, PunctSpacingEnd, PunctSpacingRepl)
        t6 == ReSub(t5, PunctLowerEnd, PunctLowerRepl)
        t7 == ReSub(t6, OpenParenEnd, OpenParenRepl)
    IN  ReSub(t7, CloseParenEnd, CloseParenRepl)

clean_punctuation_symbols(s) ==
    LET t1 == ReSub(s, SpaceRunEnd, SpaceRunRepl)
        t2 == ReSub(t1, QuoteEnd, QuoteRepl)
        t3 == ReSub(t2, ApostropheEnd, ApostropheRepl)
        t4 == ReSub(t3, BracketEnd, BracketRepl)
        t5 == ReSub(t4, PunctSpacingEnd, PunctSpacingRepl)
        t6 == ReSub(t5, PunctLowerEnd, PunctLowerRepl)
        t7 == ReSub(t6, OpenParenEnd, OpenParenRepl)
    IN  Strip(ReSub(t7, CloseParenEnd, CloseParenRepl))

(***************************************************************************)
(* Stage 7: format_titles_and_paragraphs.                                  *)
(***************************************************************************)
\* str.split(): the maximal runs of non-whitespace characters
Words(s) ==
    LET word[k \in 1..(Len(s) + 1)] ==
            IF k <= Len(s) /\ ~IsSpace(s[k]) THEN word[k + 1] ELSE k
        from[i \in 1..(Len(s) + 1)] ==
            IF i > Len(s) THEN << >>
            ELSE IF IsSpace(s[i]) THEN from[i + 1]
            ELSE <<Slice(s, i, word[i])>> \o from[word[i]]
    IN  from[1]

\* sep.join(ws)
Join(ws, sep) ==
    LET upto[k \in 0..Len(ws)] ==
            IF k = 0 THEN << >>
            ELSE IF k = 1 THEN ws[1]
            ELSE upto[k - 1] \o sep \o ws[k]
    IN  upto[Len(ws)]

\* needle in hay (needle not empty)
Contains(hay, needle) == \E i \in 1..Len(hay) : StartsWith(hay, i, needle, FALSE)

\* s.endswith(c) for a character c
EndsWith(s, c) == Len(s) > 0 /\ s[Len(s)] = c

title_keywords ==
    { <<"m", "o", "d", "e", "l", "s">>,
      <<"a", "p", "i">>,
      <<"s", "e", "r", "v", "i", "c", "e">>,
      <<"f", "e", "a", "t", "u", "r", "e", "s">>,
      <<"s", "u", "p", "p", "o", "r", "t", "e", "d">>,
      <<"a", "v", "a", "i", "l", "a", "b", "l", "e">>,
      <<"o", "v", "e", "r", "v", "i", "e", "w">>,
      <<"i", "n", "t", "r", "o", "d", "u", "c", "t", "i", "o", "n">> }

content_indicators ==
    { <<"s", "u", "p", "p", "o", "r", "t", "s">>,
      <<"p", "r", "o", "v", "i", "d", "e", "s">>,
      <<"o", "f", "f", "e", "r", "s">>,
      <<"e", "n", "a", "b", "l", "e", "s">>,
      <<"a", "l", "l", "o", "w", "s">>,
      <<"h", "e", "l", "p", "s">>,
      <<"c", "a", "n">>,
      <<"t", "h", "a", "t">>,
      <<"f", "o", "r">>,
      <<"w", "i", "t", "h">> }

\* A variant that looks for a content indicator in the first word of the
\* content only.
SplitScore_FirstWordOnly(words, i) ==
    LET title_part == Join(SubSeq(words, 1, i), <<" ">>)
        content_part == Join(SubSeq(words, i + 1, Len(words)), <<" ">>)
        head == Words(LowerText(content_part))
        head1 == SubSeq(head, 1, IF Len(head) < 1 THEN Len(head) ELSE 1)
    IN  (IF \E k \in title_keywords : Contains(LowerText(title_part), k)
         THEN 2 ELSE 0)
      + (IF \E k \in 1..Len(head1) : head1[k] \in content_indicators
         THEN 2 ELSE 0)
      + (IF i <= 5 THEN 1 ELSE 0)
      + (IF i < Len(words) /\ LowerText(words[i + 1]) \in content_indicators
         THEN 3 ELSE 0)

\* The score of the split after the first i words (words[:i] / words[i:]).
SplitScore(words, i) ==
    LET title_part == Join(SubSeq(words, 1, i), <<" ">>)
        content_part == Join(SubSeq(words, i + 1, Len(words)), <<" ">>)
        head == Words(LowerText(content_part))
        head2 == SubSeq(head, 1, IF Len(head) < 2 THEN Len(head) ELSE 2)
    IN  (IF \E k \in title_keywords : Contains(LowerText(title_part), k)
         THEN 2 ELSE 0)
      + (IF \E k \in 1..Len(head2) : head2[k] \in content_indicators
         THEN 2 ELSE 0)
      + (IF i <= 5 THEN 1 ELSE 0)
      + (IF i < Len(words) /\ LowerText(words[i + 1]) \in content_indicators
         THEN 3 ELSE 0)

\* <<best_split, best_score>> after the loop over i in range(3, min(8, len(words)))
BestSplit(words) ==
    LET last == (IF Len(words) < 8 THEN Len(words) ELSE 8) - 1
        best[i \in 2..7] ==
            IF i = 2 THEN <<-1, 0>>
            ELSE LET prev == best[i - 1]
                     score == SplitScore(words, i)
                 IN  IF score > prev[2] THEN <<i, score>> ELSE prev
    IN  IF last < 3 THEN <<-1, 0>> ELSE best[last]

\* The body of format_titles_and_paragraphs, given the words of the text, the
\* split found and the number of words a text must exceed to be split.
TitleAndContent(s, words, best, min_words) ==
    LET title0 == Strip(Join(SubSeq(words, 1, best[1]), <<" ">>))
        content0 == Strip(Join(SubSeq(words, best[1] + 1, Len(words)), <<" ">>))
        title1 == IF EndsWith(title0, ".") THEN title0 ELSE Append(title0, ".")
        content == IF EndsWith(content0, ".") THEN content0 ELSE Append(content0, ".")
        title == <<upper(title1[1])>> \o Tail(title1)
    IN  IF s = << >> THEN s
        ELSE IF Len(words) > min_words /\ best[1] > 0 /\ best[2] >= 3
             THEN title \o <<NL, NL>> \o content
        ELSE IF IsSentenceEnd(s[Len(s)]) THEN s
        ELSE Append(s, ".")

\* A variant that looks for a title in every text of more than 5 words.
format_titles_and_paragraphs_Over5(s) ==
    TitleAndContent(s, Words(s), BestSplit(Words(s)), 5)

\* format_titles_and_paragraphs: a text of more than 8 words may be split.
format_titles_and_paragraphs(s) ==
    TitleAndContent(s, Words(s), BestSplit(Words(s)), 8)

(***************************************************************************)
(* Stage 8: fix_capitalization.                                            *)
(***************************************************************************)
\* A variant of _capitalize_section that turns every upper-case word of more
\* than two characters into title case, the allow-listed acronyms included.
capitalize_section_NoAllowList(s) ==
    LET first(k) == CHOOSE j \in 1..k :
            (\A m \in j..k : ~IsSpace(s[m])) /\ (j = 1 \/ IsSpace(s[j - 1]))
        last(k) == CHOOSE j \in k..Len(s) :
            (\A m \in k..j : ~IsSpace(s[m])) /\ (j = Len(s) \/ IsSpace(s[j + 1]))
        isupper(k) == /\ last(k) - first(k) >= 2
                      /\ \A m \in first(k)..last(k) : ~IsLower(s[m])
                      /\ \E m \in first(k)..last(k) : IsUpper(s[m])
    IN  [k \in 1..Len(s) |->
            IF IsUpper(s[k]) /\ IsLetter(At(s, k - 1)) /\ isupper(k)
            THEN lower(s[k]) ELSE s[k]]

\* _capitalize_section: the loop over re.split(r'([.!?])\s*', text) runs at
\* least once (re.split returns at least one piece), its body only assigns
\* the loop variable `sentence`, and its last statement is `return text`: the
\* section comes back as it was passed in.
capitalize_section(s) == s

\* The acronyms _capitalize_section names (its loop never gets to use them).
acronyms ==
    { <<"O", "C", "R">>, <<"A", "P", "I">>, <<"U", "R", "L">>,
      <<"H", "T", "T", "P">>, <<"H", "T", "T", "P", "S">>,
      <<"J", "S", "O", "N">>, <<"X", "M", "L">>, <<"H", "T", "M", "L">>,
      <<"C", "S", "S">>, <<"S", "Q", "L">> }

\* s.split(sep): the pieces of s between the occurrences of sep
SplitOn(s, sep) ==
    LET from[i \in 1..(Len(s) + 1)] ==
            IF i > Len(s) THEN <<Len(s) + 1>>
            ELSE IF StartsWith(s, i, sep, FALSE) THEN <<i>> \o from[i + Len(sep)]
            ELSE from[i + 1]
        cuts == from[1]         \* where the separators start, then Len(s) + 1
    IN  [k \in 1..Len(cuts) |->
            Slice(s, IF k = 1 THEN 1 ELSE cuts[k - 1] + Len(sep), cuts[k])]

fix_capitalization(s) ==
    IF s = << >> THEN s
    ELSE IF Contains(s, <<NL, NL>>)
         THEN LET sections == SplitOn(s, <<NL, NL>>)
                  kept == SelectSeq(sections, LAMBDA x : Strip(x) # << >>)
                  corrected_sections ==
                      [k \in 1..Len(kept) |-> capitalize_section(Strip(kept[k]))]
              IN  Join(corrected_sections, <<NL, NL>>)
    ELSE capitalize_section(s)

(***************************************************************************)
(* Stage 9: fix_ocr_grammar (case-sensitive).                              *)
(***************************************************************************)
\* r'([.!?])([A-Z])' -> r'\1 \2'
MissingSpaceEnd(s, i) ==
    IF IsSentenceEnd(s[i]) /\ IsUpper(At(s, i + 1)) THEN i + 2 ELSE 0
MissingSpaceRepl(s, i, j) == <<s[i], " ", s[i + 1]>>

fix_ocr_grammar(s) ==
    LET t1 == ReSub(s, MissingSpaceEnd, MissingSpaceRepl)
        t2 == ReSub(t1, SentenceStartEnd, SentenceStartRepl)
        t3 == SubLiteral(t2, <<"I", "t", "i", "s">>, <<"I", "t", " ", "i", "s">>)
    IN  ReSub(t3, CaseMergeEnd, CaseMergeRepl)

(***************************************************************************)
(* Stage 10: final_cleanup.                                                *)
(***************************************************************************)
\* [a-zA-Z0-9\s.,!?;:\-\'"()\n]
IsAllowed(c) ==
    IsLetter(c) \/ IsDigit(c) \/ IsSpace(c) \/ IsPunct(c) \/ c \in {"-", AP, DQ, "(", ")"}

\* r'[^a-zA-Z0-9\s.,!?;:\-\'"()\n]' -> ''
DisallowedEnd(s, i) == IF ~IsAllowed(s[i]) THEN i + 1 ELSE 0
DisallowedRepl(s, i, j) == << >>

\* r'[ \t]+' -> ' '
BlankRunEnd(s, i) ==
    LET run[k \in i..(Len(s) + 1)] ==
            IF k <= Len(s) /\ s[k] \in {" ", TAB} THEN run[k + 1] ELSE k
    IN  IF s[i] \in {" ", TAB} THEN run[i] ELSE 0
BlankRunRepl(s, i, j) == <<" ">>

\* r'([.,!?;:])\s+([a-zA-Z])' -> r'\1 \2'
PunctLetterEnd(s, i) ==
    LET j == SkipSpace(s, i + 1)
    IN  IF IsPunct(s[i]) /\ j > i + 1 /\ IsLetter(At(s, j)) THEN j + 1 ELSE 0
PunctLetterRepl(s, i, j) == <<s[i], " ", s[j - 1]>>

\* The loop over text.split('\n') that fills cleaned_lines.
CleanedLines(lines) ==
    LET upto[k \in 0..Len(lines)] ==
            IF k = 0 THEN << >>
            ELSE LET cleaned_lines == upto[k - 1]
                     line == Strip(ReSub(lines[k], BlankRunEnd, BlankRunRepl))
                 IN  IF \/ line # << >>
                        \/ (cleaned_lines # << >>
                            /\ cleaned_lines[Len(cleaned_lines)] # << >>)
                     THEN Append(cleaned_lines, line)
                     ELSE cleaned_lines
    IN  upto[Len(lines)]

\* The loop that joins cleaned_lines again.
Rejoin(cleaned_lines) ==
    LET upto[k \in 0..Len(cleaned_lines)] ==
            IF k = 0 THEN << >>
            ELSE IF k = 1 THEN cleaned_lines[1]
            ELSE IF cleaned_lines[k] # << >> /\ cleaned_lines[k - 1] # << >>
                 THEN upto[k - 1] \o <<NL, NL>> \o cleaned_lines[k]
            ELSE upto[k - 1] \o <<NL>> \o cleaned_lines[k]
    IN  upto[Len(cleaned_lines)]

final_cleanup(s) ==
    LET t1 == ReSub(s, DisallowedEnd, DisallowedRepl)
        t2 == Rejoin(CleanedLines(SplitOn(t1, <<NL>>)))
        t3 == ReSub(t2, OpenParenEnd, OpenParenRepl)
        t4 == ReSub(t3, CloseParenEnd, CloseParenRepl)
        t5 == ReSub(t4, PunctLetterEnd, PunctLetterRepl)
    IN  IF s = << >> THEN s
        ELSE IF t5 # << >> /\ ~IsSentenceEnd(t5[Len(t5)]) THEN Append(t5, ".")
        ELSE t5

(***************************************************************************)
(* ultimate_text_correction as a state machine: one action per stage, in   *)
(* the order of the calls, and one for the early return on an empty text.  *)
(* CallFixRepeatedWords, CallFormatTitles and CallFixCapitalization are    *)
(* direct calls of one stage, and Again feeds the result of a finished     *)
(* call to a second call.                                                  *)
(***************************************************************************)
\* if not text: return ""
EmptyReturn ==
    /\ pc = "idle"
    /\ input = << >>
    /\ op' = "ultimate_text_correction"
    /\ text' = << >>
    /\ pc' = "done"
    /\ UNCHANGED <<input, stages, round, split>>
    /\ UNCHANGED docvars

\* Stage k of the pipeline maps text to out.
Stage(k, out) ==
    /\ stages = k - 1
    /\ text' = out
    /\ stages' = k
    /\ UNCHANGED <<input, op, round>>
    /\ UNCHANGED docvars

Stage1 ==
    /\ pc = "idle"
    /\ input # << >>
    /\ text' = fix_character_substitutions(input)
    /\ stages' = 1
    /\ op' = "ultimate_text_correction"
    /\ pc' = "running"
    /\ UNCHANGED <<input, round, split>>
    /\ UNCHANGED docvars

Stage2 ==
    /\ pc = "running"
    /\ Stage(2, fix_severe_distortions(text))
    /\ UNCHANGED <<pc, split>>

Stage3 ==
    /\ pc = "running"
    /\ Stage(3, fix_repeated_words(text))
    /\ UNCHANGED <<pc, split>>

Stage4 ==
    /\ pc = "running"
    /\ Stage(4, fix_broken_merged_words(text))
    /\ UNCHANGED <<pc, split>>

Stage5 ==
    /\ pc = "running"
    /\ Stage(5, fix_verb_tenses(text))
    /\ UNCHANGED <<pc, split>>

Stage6 ==
    /\ pc = "running"
    /\ Stage(6, clean_punctuation_symbols(text))
    /\ UNCHANGED <<pc, split>>

Stage7 ==
    /\ pc = "running"
    /\ Stage(7, format_titles_and_paragraphs(text))
    /\ split' = text'
    /\ UNCHANGED pc

Stage8 ==
    /\ pc = "running"
    /\ Stage(8, fix_capitalization(text))
    /\ UNCHANGED <<pc, split>>

Stage9 ==
    /\ pc = "running"
    /\ Stage(9, fix_ocr_grammar(text))
    /\ UNCHANGED <<pc, split>>

Stage10 ==
    /\ pc = "running"
    /\ Stage(10, final_cleanup(text))
    /\ pc' = "done"
    /\ UNCHANGED split

\* correct(correct(s)): the pipeline is called on its own result.
Again ==
    /\ pc = "done"
    /\ op = "ultimate_text_correction"
    /\ round = 1
    /\ input' = text
    /\ round' = 2
    /\ pc' = "idle"
    /\ op' = "none"
    /\ stages' = 0
    /\ split' = << >>
    /\ UNCHANGED text
    /\ UNCHANGED docvars

\* service.fix_repeated_words(text), called on its own
CallFixRepeatedWords ==
    /\ pc = "idle"
    /\ round = 1
    /\ op' = "fix_repeated_words"
    /\ text' = fix_repeated_words(input)
    /\ pc' = "done"
    /\ UNCHANGED <<input, stages, round, split>>
    /\ UNCHANGED docvars

\* service.format_titles_and_paragraphs(text), called on its own
CallFormatTitles ==
    /\ pc = "idle"
    /\ round = 1
    /\ op' = "format_titles_and_paragraphs"
    /\ text' = format_titles_and_paragraphs(input)
    /\ pc' = "done"
    /\ UNCHANGED <<input, stages, round, split>>
    /\ UNCHANGED docvars

\* service.fix_capitalization(text), called on its own
CallFixCapitalization ==
    /\ pc = "idle"
    /\ round = 1
    /\ op' = "fix_capitalization"
    /\ text' = fix_capitalization(input)
    /\ pc' = "done"
    /\ UNCHANGED <<input, stages, round, split>>
    /\ UNCHANGED docvars

\* service.fix_severe_distortions(text), called on its own
CallFixSevereDistortions ==
    /\ pc = "idle"
    /\ round = 1
    /\ op' = "fix_severe_distortions"
    /\ text' = fix_severe_distortions(input)
    /\ pc' = "done"
    /\ UNCHANGED <<input, stages, round, split>>
    /\ UNCHANGED docvars

\* service.clean_punctuation_symbols(text), called on its own
CallCleanPunctuation ==
    /\ pc = "idle"
    /\ round = 1
    /\ op' = "clean_punctuation_symbols"
    /\ text' = clean_punctuation_symbols(input)
    /\ pc' = "done"
    /\ UNCHANGED <<input, stages, round, split>>
    /\ UNCHANGED docvars

Next ==
    \/ EmptyReturn
    \/ Stage1
    \/ Stage2
    \/ Stage3
    \/ Stage4
    \/ Stage5
    \/ Stage6
    \/ Stage7
    \/ Stage8
    \/ Stage9
    \/ Stage10
    \/ Again
    \/ CallFixRepeatedWords
    \/ CallFormatTitles
    \/ CallFixCapitalization
    \/ CallFixSevereDistortions
    \/ CallCleanPunctuation

(***************************************************************************)
(* The inputs.  A specification draws the argument of the first call from  *)
(* the concatenations of at most n pieces taken from a set of pieces.      *)
(***************************************************************************)
Concat(ps) ==
    LET upto[k \in 0..Len(ps)] == IF k = 0 THEN << >> ELSE upto[k - 1] \o ps[k]
    IN  upto[Len(ps)]

TextsOver(pieces, n) == {Concat(ps) : ps \in UNION {[1..k -> pieces] : k \in 0..n}}

\* No file: the calls of these specifications are calls of the correction
\* functions on a text, not of extract_text_from_path on a path.
NoFile ==
    [ext |-> << >>, opens |-> TRUE, pages |-> << >>,
     ocr |-> [kind |-> "text", raw |-> << >>]]
NoResult == [text |-> << >>, confidence |-> "none", description |-> "none"]

\* No candidate selection, no word filter and no question generation:
\* neither ocr_service nor qgen_service is called.
NoAttempts == [readable |-> TRUE, data |-> << >>]
ZeroScore == [alpha_count |-> 0, total_chars |-> 1]
NoRequest == [extra_keywords |-> FALSE, has_text |-> FALSE, has_key |-> FALSE,
              qtype |-> "mcq", num_questions |-> 0, max_retries |-> 0]
NoAnswer == [kind |-> "none", questions |-> << >>, error |-> "none"]
NoSelection ==
    /\ ocr_data = << >>
    /\ filtered = << >>
    /\ grouped = << >>
    /\ bpc = "off"
    /\ request = NoRequest
    /\ qpc = "off"
    /\ attempt = 0
    /\ replies = << >>
    /\ answer = NoAnswer
    /\ attempts = NoAttempts
    /\ spc = "off"
    /\ cand = 0
    /\ best_text = << >>
    /\ best_score = ZeroScore
    /\ selections = << >>

InitWith(texts) ==
    /\ input \in texts
    /\ text = input
    /\ pc = "idle"
    /\ op = "none"
    /\ stages = 0
    /\ round = 1
    /\ split = << >>
    /\ file = NoFile
    /\ dpc = "off"
    /\ route = "none"
    /\ ocr_calls = 0
    /\ result = NoResult
    /\ NoSelection

\* Spec: texts of letters in both cases, a digit, blanks, a sentence mark and
\* a symbol outside the allow-list.
MaxLen == 4
Alphabet == {<<"a">>, <<"A">>, <<"1">>, <<" ">>, <<".">>, <<"@">>}
Init == InitWith(TextsOver(Alphabet, MaxLen))
Spec == Init /\ [][Next]_vars

\* SpecSymbols: texts with brackets, parentheses and punctuation.
SymbolAlphabet == {<<"a">>, <<" ">>, <<"[">>, <<"(">>, <<")">>, <<"!">>}
InitSymbols == InitWith(TextsOver(SymbolAlphabet, MaxLen))
SpecSymbols == InitSymbols /\ [][Next]_vars

\* SpecLines: texts with every kind of whitespace.
LineAlphabet == {<<" ">>, <<NL>>, <<TAB>>, <<"a">>, <<".">>}
InitLines == InitWith(TextsOver(LineAlphabet, MaxLen))
SpecLines == InitLines /\ [][Next]_vars

\* SpecWords: longer texts of one word in both cases and blanks.
MaxWordsLen == 6
WordAlphabet == {<<"a">>, <<"A">>, <<" ">>}
InitWords == InitWith(TextsOver(WordAlphabet, MaxWordsLen))
SpecWords == InitWords /\ [][Next]_vars

\* SpecRepeats: texts of up to 5 words, with the words that follow one
\* another the same or not, in the same letter case or not.
MaxRepeats == 5
RepeatPieces == {<<"a", " ">>, <<"A", " ">>, <<"b", " ">>, <<"a">>}
InitRepeats == InitWith(TextsOver(RepeatPieces, MaxRepeats))
SpecRepeats == InitRepeats /\ [][Next]_vars

\* SpecAcronym: texts built from an acronym of the allow-list, the same word
\* in lower case, a letter that can lengthen it, and separators.
MaxPieces == 4
AcronymPieces ==
    {<<"C", "S", "S">>, <<"c", "s", "s">>, <<"s">>, <<" ">>, <<".">>, <<"@">>}
InitAcronym == InitWith(TextsOver(AcronymPieces, MaxPieces))
SpecAcronym == InitAcronym /\ [][Next]_vars

\* SpecTitle: texts built from runs of words, long enough (more than 8
\* words) for format_titles_and_paragraphs to look for a title.
TitlePieces ==
    { <<"a", "p", "i", " ", "b", " ", "c", " ">>,
      <<"c", "a", "n", " ">>,
      <<"d", " ", "e", " ", "f", " ", "g", " ", "h", " ">>,
      <<"2", " ">> }
InitTitle == InitWith(TextsOver(TitlePieces, MaxPieces))
SpecTitle == InitTitle /\ [][Next]_vars

(***************************************************************************)
(* extract_text_from_path: the document adapter.  A file is described by   *)
(* its extension, whether the library can open it, its pages (a PDF: the   *)
(* text layer and the embedded images of each page, an image standing for  *)
(* what the OCR engine does with it) and what the OCR engine does with the *)
(* file itself when it is an image.  The correction of the extracted text  *)
(* runs through the stage actions above.                                   *)
(***************************************************************************)
BS == "BS"      \* the backslash character

\* The variables of the correction pipeline.
textvars == <<input, text, pc, op, stages, round, split>>

\* A variant that compares the extension as it is written.
IsPdfPath_CaseSensitive(f) == f.ext = <<".", "p", "d", "f">>

\* os.path.splitext(file_path)[1].lower() == '.pdf'
IsPdfPath(f) == LowerText(f.ext) = <<".", "p", "d", "f">>

\* The loop of extract_text_from_pdf over the pages: direct_text, to which
\* every page with text adds its text and the two characters backslash, n.
direct_text(pages) ==
    LET upto[k \in 0..Len(pages)] ==
            IF k = 0 THEN << >>
            ELSE IF Strip(pages[k].text) # << >>
                 THEN upto[k - 1] \o pages[k].text \o <<BS, "n">>
            ELSE upto[k - 1]
    IN  upto[Len(pages)]

\* _ocr_pdf_images looks at the first 10 pages only.
MaxOcrPages == 10

\* Some page among the first 10 holds an image: the loops of
\* _ocr_pdf_images reach fitz.Pixmap(doc, xref).
ReachesPixmap(pages) ==
    \E k \in 1..Len(pages) : k <= MaxOcrPages /\ pages[k].images # << >>

\* The text has to be longer than this for the confidence 'high'.
MinHighLen == 10

\* return {"text": txt, "description": ..., "confidence": conf}
Return(txt, conf, desc) ==
    /\ result' = [text |-> txt, confidence |-> conf, description |-> desc]
    /\ dpc' = "returned"
    /\ UNCHANGED <<file, route, ocr_calls, selvars, restvars>>

\* self.ultimate_text_correction(raw) is called; the call of
\* extract_text_from_path goes on at `next` when it has returned.
Correct(raw, next) ==
    /\ input' = raw
    /\ text' = raw
    /\ pc' = "idle"
    /\ op' = "none"
    /\ stages' = 0
    /\ split' = << >>
    /\ dpc' = next
    /\ UNCHANGED <<round, file, route, ocr_calls, result, selvars, restvars>>

\* extract_text_from_path: the choice of the extractor
Route ==
    /\ dpc = "start"
    /\ route' = (IF IsPdfPath(file) THEN "pdf" ELSE "image")
    /\ dpc' = route'
    /\ UNCHANGED <<file, ocr_calls, result, selvars, restvars>>
    /\ UNCHANGED textvars

\* extract_text_from_pdf: fitz.open raises, the except clause returns
PdfOpenFails ==
    /\ dpc = "pdf"
    /\ ~file.opens
    /\ Return(<< >>, "error", "Error processing PDF")
    /\ UNCHANGED textvars

\* extract_text_from_pdf: some page has text, the text is corrected
PdfDirectText ==
    /\ dpc = "pdf"
    /\ file.opens
    /\ Strip(direct_text(file.pages)) # << >>
    /\ Correct(Strip(direct_text(file.pages)), "pdf_correcting")

\* extract_text_from_pdf: the corrected text is returned
PdfReturn ==
    /\ dpc = "pdf_correcting"
    /\ pc = "done"
    /\ Return(text, "high", "Extracted and ultimate-corrected text")
    /\ UNCHANGED textvars

\* extract_text_from_pdf: no page has text, _ocr_pdf_images is called
PdfOcrImages ==
    /\ dpc = "pdf"
    /\ file.opens
    /\ Strip(direct_text(file.pages)) = << >>
    /\ dpc' = "ocr_pdf_images"
    /\ UNCHANGED <<file, route, ocr_calls, result, selvars, restvars>>
    /\ UNCHANGED textvars

\* _ocr_pdf_images: the name fitz is not bound in this function (the import
\* is local to extract_text_from_pdf), so fitz.Pixmap raises NameError at
\* the first image; the except clause of extract_text_from_pdf returns.
OcrPdfNameError ==
    /\ dpc = "ocr_pdf_images"
    /\ ReachesPixmap(file.pages)
    /\ Return(<< >>, "error", "Error processing PDF")
    /\ UNCHANGED textvars

\* _ocr_pdf_images: no image in the first 10 pages, image_tasks is empty
OcrPdfNoImages ==
    /\ dpc = "ocr_pdf_images"
    /\ ~ReachesPixmap(file.pages)
    /\ Return(<< >>, "low", "No images found")
    /\ UNCHANGED textvars

\* extract_text_from_image: Image.open raises, the except clause returns
ImageOpenFails ==
    /\ dpc = "image"
    /\ ~file.opens
    /\ Return(<< >>, "error", "Error processing")
    /\ UNCHANGED textvars

\* extract_text_from_image: pytesseract.image_to_string is handed to the
\* executor and awaited (no timeout)
ImageRunOcr ==
    /\ dpc = "image"
    /\ file.opens
    /\ ocr_calls' = ocr_calls + 1
    /\ dpc' = "ocr_wait"
    /\ UNCHANGED <<file, route, result, selvars, restvars>>
    /\ UNCHANGED textvars

\* extract_text_from_image: the engine returned, the text is corrected.
\* An engine that hangs never lets the await return: no action models it.
OcrReturns ==
    /\ dpc = "ocr_wait"
    /\ file.ocr.kind = "text"
    /\ Correct(Strip(file.ocr.raw), "image_correcting")

\* extract_text_from_image: the engine raised, the except clause returns
OcrRaises ==
    /\ dpc = "ocr_wait"
    /\ file.ocr.kind = "raise"
    /\ Return(<< >>, "error", "Error processing")
    /\ UNCHANGED textvars

\* extract_text_from_image: the corrected text is returned
ImageReturn ==
    /\ dpc = "image_correcting"
    /\ pc = "done"
    /\ Return(text,
              IF text # << >> /\ Len(Strip(text)) > MinHighLen THEN "high" ELSE "medium",
              "Extracted and ultimate-corrected text using ultimate OCR")
    /\ UNCHANGED textvars

NextDoc ==
    \/ Route
    \/ PdfOpenFails
    \/ PdfDirectText
    \/ PdfReturn
    \/ PdfOcrImages
    \/ OcrPdfNameError
    \/ OcrPdfNoImages
    \/ ImageOpenFails
    \/ ImageRunOcr
    \/ OcrReturns
    \/ OcrRaises
    \/ ImageReturn
    \/ EmptyReturn
    \/ Stage1
    \/ Stage2
    \/ Stage3
    \/ Stage4
    \/ Stage5
    \/ Stage6
    \/ Stage7
    \/ Stage8
    \/ Stage9
    \/ Stage10

(***************************************************************************)
(* The files.  A PDF has at most MaxPages pages; a page has a text layer   *)
(* (possibly empty or blank) and at most MaxImages images, each standing   *)
(* for what the OCR engine would do with it.  An image file stands for     *)
(* what the OCR engine does with it: return a text, raise, or hang.  A     *)
(* file that cannot be opened shows neither pages nor text.                *)
(***************************************************************************)
MaxPages == 2
MaxImages == 2

PageTexts == {<< >>, <<" ">>, <<"a", "b">>, <<"[">>}
UnitOutcomes ==
    { [kind |-> "text", raw |-> <<"a">>],
      [kind |-> "text", raw |-> <<"b">>],
      [kind |-> "raise", raw |-> << >>] }
ImageSeqs == UNION {[1..k -> UnitOutcomes] : k \in 0..MaxImages}
PageKinds ==
    {[text |-> t, images |-> << >>] : t \in PageTexts}
        \cup {[text |-> << >>, images |-> u] : u \in ImageSeqs}
        \cup {[text |-> <<"a", "b">>, images |-> <<[kind |-> "text", raw |-> <<"a">>]>>]}
PdfExts == {<<".", "p", "d", "f">>, <<".", "P", "D", "F">>}
PdfFiles ==
    { [ext |-> e, opens |-> TRUE, pages |-> ps, ocr |-> NoFile.ocr] :
        e \in PdfExts,
        ps \in UNION {[1..k -> PageKinds] : k \in 0..MaxPages} }
        \cup {[NoFile EXCEPT !.ext = e, !.opens = FALSE] : e \in PdfExts}

OcrTexts ==
    { << >>, <<" ">>, <<"a", "b">>, <<"[">>,
      <<"h", "e", "l", "l", "o", " ", "w", "o", "r", "l", "d", " ">> }
OcrOutcomes ==
    {[kind |-> "text", raw |-> t] : t \in OcrTexts}
        \cup {[kind |-> k, raw |-> << >>] : k \in {"raise", "hang"}}
ImageExts == {<<".", "p", "n", "g">>, <<"p", "d", "f">>, << >>}
ImageFiles ==
    { [ext |-> e, opens |-> TRUE, pages |-> << >>, ocr |-> k] :
        e \in ImageExts, k \in OcrOutcomes }
        \cup {[NoFile EXCEPT !.ext = e, !.opens = FALSE] : e \in ImageExts}

InitDoc ==
    /\ file \in PdfFiles \cup ImageFiles
    /\ dpc = "start"
    /\ route = "none"
    /\ ocr_calls = 0
    /\ result = NoResult
    /\ NoSelection
    /\ input = << >>
    /\ text = << >>
    /\ pc = "off"
    /\ op = "none"
    /\ stages = 0
    /\ round = 1
    /\ split = << >>

SpecDoc == InitDoc /\ [][NextDoc]_vars

\* The event loop resumes a coroutine whose awaited future has completed:
\* once the engine has answered or raised, the await of lines 98-102 ends.
AwaitResumes == OcrReturns \/ OcrRaises

SpecDocFair == SpecDoc /\ WF_vars(AwaitResumes)

(***************************************************************************)
(* ocr_service.extract_text_from_path: the selection of the best candidate *)
(* among the texts the engine gives for each image variant and each        *)
(* configuration.                                                          *)
(***************************************************************************)
\* str.isalnum on one character
IsAlnum(c) == IsLetter(c) \/ IsDigit(c)

\* min_confidence = 0.3, as a percentage: float(conf) / 100.0 < 0.3
MinConfidence == 30

\* process_ocr_result, had it dropped every word of low confidence
process_ocr_result_ConfOnly(data) ==
    LET kept(w) == Strip(w.text) # << >> /\ ~(w.conf < MinConfidence)
        block(w) == [text |-> Strip(w.text), conf |-> w.conf,
                     x |-> w.left, y |-> w.top, h |-> w.height]
        upto[k \in 0..Len(data)] ==
            IF k = 0 THEN << >>
            ELSE IF kept(data[k]) THEN Append(upto[k - 1], block(data[k]))
            ELSE upto[k - 1]
    IN  upto[Len(data)]

\* process_ocr_result: the words of the engine's answer that are kept
process_ocr_result(data) ==
    LET kept(w) ==
            /\ Strip(w.text) # << >>
            /\ ~(w.conf < MinConfidence /\ Len(Strip(w.text)) < 3)
        block(w) == [text |-> Strip(w.text), conf |-> w.conf,
                     x |-> w.left, y |-> w.top, h |-> w.height]
        upto[k \in 0..Len(data)] ==
            IF k = 0 THEN << >>
            ELSE IF kept(data[k]) THEN Append(upto[k - 1], block(data[k]))
            ELSE upto[k - 1]
    IN  upto[Len(data)]

\* blocks.sort(key=lambda b: (b['y'], b['x'])): a stable sort
SortByYX(blocks) ==
    LET leq(a, b) == a.y < b.y \/ (a.y = b.y /\ a.x <= b.x)
        insert(b, s) ==
            LET n == Cardinality({i \in 1..Len(s) : leq(s[i], b)})
            IN  SubSeq(s, 1, n) \o <<b>> \o SubSeq(s, n + 1, Len(s))
        upto[k \in 0..Len(blocks)] ==
            IF k = 0 THEN << >> ELSE insert(blocks[k], upto[k - 1])
    IN  upto[Len(blocks)]

\* current_line.sort(key=lambda b: b['x']): a stable sort
SortByX(blocks) ==
    LET insert(b, s) ==
            LET n == Cardinality({i \in 1..Len(s) : s[i].x <= b.x})
            IN  SubSeq(s, 1, n) \o <<b>> \o SubSeq(s, n + 1, Len(s))
        upto[k \in 0..Len(blocks)] ==
            IF k = 0 THEN << >> ELSE insert(blocks[k], upto[k - 1])
    IN  upto[Len(blocks)]

\* the test of the same line, had it taken the height of the block itself
SameLine_OwnHeight(block, last_block) ==
    LET d == block.y - last_block.y
        y_diff == IF d < 0 THEN 0 - d ELSE d
    IN  2 * y_diff < block.h

\* abs(block['y'] - last_block['y']) < last_block['h'] * 0.5
SameLine(block, last_block) ==
    LET d == block.y - last_block.y
        y_diff == IF d < 0 THEN 0 - d ELSE d
    IN  2 * y_diff < last_block.h

\* group_text_blocks: the blocks in reading order, line by line
group_text_blocks(blocks) ==
    LET sorted == SortByYX(blocks)
        upto[k \in 1..Len(sorted)] ==
            IF k = 1 THEN [lines |-> << >>, current_line |-> <<sorted[1]>>]
            ELSE LET before == upto[k - 1]
                     last_block == before.current_line[Len(before.current_line)]
                 IN  IF SameLine(sorted[k], last_block)
                     THEN [lines |-> before.lines,
                           current_line |-> Append(before.current_line, sorted[k])]
                     ELSE [lines |-> Append(before.lines, SortByX(before.current_line)),
                           current_line |-> <<sorted[k]>>]
    IN  IF blocks = << >> THEN << >>
        ELSE Append(upto[Len(sorted)].lines, SortByX(upto[Len(sorted)].current_line))

\* '\n'.join(' '.join(block['text'] for block in line) for line in lines)
current_text(text_blocks) ==
    LET lines == group_text_blocks(text_blocks)
        line_text(line) == Join([k \in 1..Len(line) |-> line[k].text], <<" ">>)
    IN  Join([k \in 1..Len(lines) |-> line_text(lines[k])], <<NL>>)

\* score = (alpha_count / total_chars) * 100, kept as the two counts: the
\* quotients of two such pairs compare as the cross products do.
Score(txt) ==
    [alpha_count |-> Len(SelectSeq(txt, IsAlnum)),
     total_chars |-> IF Len(txt) > 1 THEN Len(txt) ELSE 1]

\* score > best_score
ScoreGreater(score, best) ==
    score.alpha_count * best.total_chars > best.alpha_count * score.total_chars

\* The number of image variants and of engine configurations the loop tries.
NumImages == 2
NumConfigs == 2

\* The engine's answer for the candidate tried after k others: the loop
\* goes through the configurations for each image variant in turn.
Attempt(a, k) == a.data[(k \div NumConfigs) + 1][(k % NumConfigs) + 1]

\* cv2.imread gives None: the call returns an error text.
SelUnreadable ==
    /\ spc = "start"
    /\ ~attempts.readable
    /\ selections' = Append(selections, [ok |-> FALSE, text |-> << >>])
    /\ spc' = "returned"
    /\ UNCHANGED <<attempts, cand, best_text, best_score>>
    /\ UNCHANGED <<textvars, file, dpc, route, ocr_calls, result, restvars>>

\* best_text = "", best_score = 0, and the loop starts
SelStart ==
    /\ spc = "start"
    /\ attempts.readable
    /\ best_text' = << >>
    /\ best_score' = ZeroScore
    /\ cand' = 0
    /\ spc' = "loop"
    /\ UNCHANGED <<attempts, selections>>
    /\ UNCHANGED <<textvars, file, dpc, route, ocr_calls, result, restvars>>

\* One candidate is passed over: what the loop body leaves as it was.
SelContinue ==
    /\ cand' = cand + 1
    /\ UNCHANGED <<attempts, spc, best_text, best_score, selections>>
    /\ UNCHANGED <<textvars, file, dpc, route, ocr_calls, result, restvars>>

\* pytesseract.image_to_data raises: the except clause goes on with the
\* next candidate
SelRaises ==
    /\ spc = "loop"
    /\ cand < NumImages * NumConfigs
    /\ Attempt(attempts, cand).kind = "raise"
    /\ SelContinue

\* process_ocr_result keeps no word: `continue`
SelNoBlocks ==
    /\ spc = "loop"
    /\ cand < NumImages * NumConfigs
    /\ Attempt(attempts, cand).kind = "data"
    /\ process_ocr_result(Attempt(attempts, cand).words) = << >>
    /\ SelContinue

\* the candidate's score is not greater than best_score
SelKeeps ==
    /\ spc = "loop"
    /\ cand < NumImages * NumConfigs
    /\ Attempt(attempts, cand).kind = "data"
    /\ LET text_blocks == process_ocr_result(Attempt(attempts, cand).words)
           txt == current_text(text_blocks)
       IN  /\ text_blocks # << >>
           /\ ~(txt # << >> /\ ScoreGreater(Score(txt), best_score))
    /\ SelContinue

\* the candidate's score is greater than best_score: it is the best so far
SelImproves ==
    /\ spc = "loop"
    /\ cand < NumImages * NumConfigs
    /\ Attempt(attempts, cand).kind = "data"
    /\ LET text_blocks == process_ocr_result(Attempt(attempts, cand).words)
           txt == current_text(text_blocks)
       IN  /\ text_blocks # << >>
           /\ txt # << >>
           /\ ScoreGreater(Score(txt), best_score)
           /\ best_score' = Score(txt)
           /\ best_text' = txt
    /\ cand' = cand + 1
    /\ UNCHANGED <<attempts, spc, selections>>
    /\ UNCHANGED <<textvars, file, dpc, route, ocr_calls, result, restvars>>

\* The loop has tried every candidate: without a best text the call returns
\* "[error] No readable text could be extracted", else it goes on with
\* best_text.
SelEnd ==
    /\ spc = "loop"
    /\ cand = NumImages * NumConfigs
    /\ selections' = Append(selections,
                            [ok |-> Strip(best_text) # << >>, text |-> best_text])
    /\ spc' = "returned"
    /\ UNCHANGED <<attempts, cand, best_text, best_score>>
    /\ UNCHANGED <<textvars, file, dpc, route, ocr_calls, result, restvars>>

\* The function is called once more on the same image, with the same
\* answers of the engine.
MaxCalls == 2
SelAgain ==
    /\ spc = "returned"
    /\ Len(selections) < MaxCalls
    /\ spc' = "start"
    /\ UNCHANGED <<attempts, cand, best_text, best_score, selections>>
    /\ UNCHANGED <<textvars, file, dpc, route, ocr_calls, result, restvars>>

NextSel ==
    \/ SelUnreadable
    \/ SelStart
    \/ SelRaises
    \/ SelNoBlocks
    \/ SelKeeps
    \/ SelImproves
    \/ SelEnd
    \/ SelAgain

\* The engine's answers: an exception, no word, words that the confidence
\* filter drops, texts with the same score, a text without any letter or
\* digit, words on one line and on two lines given out of order, and a
\* text with more letters than the others but a space among them.
Word(t, c, l, tp) == [text |-> t, conf |-> c, left |-> l, top |-> tp, height |-> 10]
Answers ==
    {[kind |-> "raise", words |-> << >>],
     [kind |-> "data", words |-> << >>],
     [kind |-> "data", words |-> <<Word(<<"a">>, 10, 0, 0)>>],
     [kind |-> "data", words |-> <<Word(<<"a", "b">>, 90, 0, 0)>>],
     [kind |-> "data", words |-> <<Word(<<"c", "d", " ">>, 90, 0, 0)>>],
     [kind |-> "data", words |-> <<Word(<<"-", "-">>, 90, 0, 0)>>],
     [kind |-> "data", words |-> <<Word(<<"b">>, 90, 30, 0), Word(<<"a">>, 90, 0, 2)>>],
     [kind |-> "data", words |-> <<Word(<<"b">>, 90, 0, 20), Word(<<"a">>, 90, 0, 0)>>],
     [kind |-> "data", words |-> <<Word(<<"c", "d">>, 90, 0, 0), Word(<<"e">>, 90, 30, 0)>>]}

Attempts ==
    {[readable |-> TRUE, data |-> d] :
        d \in [1..NumImages -> [1..NumConfigs -> Answers]]}
    \cup {[readable |-> FALSE, data |-> << >>]}

InitSel ==
    /\ attempts \in Attempts
    /\ spc = "start"
    /\ cand = 0
    /\ best_text = << >>
    /\ best_score = ZeroScore
    /\ selections = << >>
    /\ ocr_data = << >>
    /\ filtered = << >>
    /\ grouped = << >>
    /\ bpc = "off"
    /\ request = NoRequest
    /\ qpc = "off"
    /\ attempt = 0
    /\ replies = << >>
    /\ answer = NoAnswer
    /\ input = << >>
    /\ text = << >>
    /\ pc = "off"
    /\ op = "none"
    /\ stages = 0
    /\ round = 1
    /\ split = << >>
    /\ file = NoFile
    /\ dpc = "off"
    /\ route = "none"
    /\ ocr_calls = 0
    /\ result = NoResult

SpecSel == InitSel /\ [][NextSel]_vars

(***************************************************************************)
(* ocr_service.process_ocr_result and group_text_blocks, called one after  *)
(* the other on the word detections of one answer of the engine, as the    *)
(* selection loop calls them.                                              *)
(***************************************************************************)
\* text_blocks = process_ocr_result(data)
CallProcessOcrResult ==
    /\ bpc = "start"
    /\ filtered' = process_ocr_result(ocr_data)
    /\ bpc' = "filtered"
    /\ UNCHANGED <<ocr_data, grouped, qvars>>
    /\ UNCHANGED <<textvars, file, dpc, route, ocr_calls, result, selvars>>

\* lines = group_text_blocks(text_blocks)
CallGroupTextBlocks ==
    /\ bpc = "filtered"
    /\ grouped' = group_text_blocks(filtered)
    /\ bpc' = "grouped"
    /\ UNCHANGED <<ocr_data, filtered, qvars>>
    /\ UNCHANGED <<textvars, file, dpc, route, ocr_calls, result, selvars>>

NextBlocks ==
    \/ CallProcessOcrResult
    \/ CallGroupTextBlocks

\* The word detections of an answer: at most MaxDetections words, either
\* words of all lengths and of confidences around the threshold, blank and
\* padded words among them, or words of high confidence at places and of
\* heights that put them on the same line or not.
MaxDetections == 3
Detection(t, c, l, tp, h) == [text |-> t, conf |-> c, left |-> l, top |-> tp, height |-> h]
DetectionTexts == {<< >>, <<" ">>, <<"a", "b">>, <<"a", "b", "c">>, <<" ", "a", " ">>}
WeakDetections == {Detection(t, c, 0, 0, 10) : t \in DetectionTexts, c \in {29, 30}}
PlacedDetections ==
    {Detection(<<"a">>, 90, l, tp, h) : l \in {0, 30}, tp \in {0, 4, 5, 12}, h \in {10, 20}}
SeqsUpTo(S, n) == UNION {[1..k -> S] : k \in 0..n}

InitBlocks ==
    /\ ocr_data \in SeqsUpTo(WeakDetections, MaxDetections)
                     \cup SeqsUpTo(PlacedDetections, MaxDetections)
    /\ filtered = << >>
    /\ grouped = << >>
    /\ bpc = "start"
    /\ request = NoRequest
    /\ qpc = "off"
    /\ attempt = 0
    /\ replies = << >>
    /\ answer = NoAnswer
    /\ attempts = NoAttempts
    /\ spc = "off"
    /\ cand = 0
    /\ best_text = << >>
    /\ best_score = ZeroScore
    /\ selections = << >>
    /\ input = << >>
    /\ text = << >>
    /\ pc = "off"
    /\ op = "none"
    /\ stages = 0
    /\ round = 1
    /\ split = << >>
    /\ file = NoFile
    /\ dpc = "off"
    /\ route = "none"
    /\ ocr_calls = 0
    /\ result = NoResult

SpecBlocks == InitBlocks /\ [][NextBlocks]_vars

(***************************************************************************)
(* qgen_service.generate_questions_from_content: the calls of the language *)
(* model, the reading of its reply and the retries.                        *)
(***************************************************************************)
\* The value of a key of a JSON object: the key is absent, null, or a string.
Absent == [kind |-> "absent", s |-> << >>]
Null == [kind |-> "null", s |-> << >>]
Str(s) == [kind |-> "str", s |-> s]

\* The value of the key "choices" or "options": absent, or a list of strings.
NoList == [kind |-> "absent", list |-> << >>]
List(l) == [kind |-> "list", list |-> l]

\* str(value).strip(): str(None) is 'None'
StrOf(v) == IF v.kind = "null" THEN <<"N", "o", "n", "e">> ELSE Strip(v.s)

\* q.get("question", "").strip() and q.get("rationale", ...).strip() raise
\* AttributeError when the value is null
ProcessingRaises(questions) ==
    \E k \in 1..Len(questions) :
        /\ questions[k].isdict
        /\ (questions[k].question.kind = "null" \/ questions[k].rationale.kind = "null")

\* "Option A" .. "Option D": f"Option {chr(65 + len(choices))}"
DefaultChoices ==
    [k \in 1..4 |-> <<"O", "p", "t", "i", "o", "n", " ">> \o <<<<"A", "B", "C", "D">>[k]>>]

\* processed_q["choices"]: the first four of "choices", else of "options",
\* else the default ones, filled up to four with the default ones
ProcessedChoices(q) ==
    LET given == IF q.choices.kind = "list" THEN q.choices.list
                 ELSE IF q.options.kind = "list" THEN q.options.list
                 ELSE DefaultChoices
        first == SubSeq(given, 1, IF Len(given) < 4 THEN Len(given) ELSE 4)
        stripped == [k \in 1..Len(first) |-> Strip(first[k])]
    IN  stripped \o SubSeq(DefaultChoices, Len(stripped) + 1, 4)

\* "No question provided"
NoQuestionProvided ==
    <<"N", "o", " ", "q", "u", "e", "s", "t", "i", "o", "n", " ",
      "p", "r", "o", "v", "i", "d", "e", "d">>

\* processed_q for one object of the reply
ProcessedQuestion(q, qtype) ==
    LET question == IF q.question.kind = "absent" \/ Strip(q.question.s) = << >>
                    THEN NoQuestionProvided
                    ELSE Strip(q.question.s)
        given == IF q.answer.kind # "absent" THEN StrOf(q.answer)
                 ELSE IF q.correct.kind # "absent" THEN StrOf(q.correct)
                 ELSE << >>
        choices == IF qtype = "mcq" THEN ProcessedChoices(q) ELSE << >>
        letter == {k \in 1..4 : given = <<<<"A", "B", "C", "D">>[k]>>}
    IN  [question |-> question,
         answer |-> IF qtype = "mcq" /\ letter # {}
                    THEN choices[CHOOSE k \in letter : TRUE]
                    ELSE given,
         choices |-> choices,
         qtype |-> qtype]

\* processed_questions: the objects of the reply that are dicts and have an
\* answer (the question is never empty: it has a default)
ProcessedQuestions(questions, qtype) ==
    LET upto[k \in 0..Len(questions)] ==
            IF k = 0 THEN << >>
            ELSE IF questions[k].isdict
                    /\ ProcessedQuestion(questions[k], qtype).answer # << >>
                 THEN Append(upto[k - 1], ProcessedQuestion(questions[k], qtype))
            ELSE upto[k - 1]
    IN  upto[Len(questions)]

\* processed_questions[:num_questions]
FirstQuestions(questions, n) ==
    SubSeq(questions, 1, IF Len(questions) < n THEN Len(questions) ELSE n)

ErrorAnswer(message) == [kind |-> "error", questions |-> << >>, error |-> message]

\* The call gives keyword arguments that are not parameters of the function
\* (class_id and subject, or class_for and subject, as the routers do): the
\* call raises TypeError before the body runs.
QBadCall ==
    /\ qpc = "start"
    /\ request.extra_keywords
    /\ answer' = [kind |-> "raised", questions |-> << >>, error |-> "TypeError"]
    /\ qpc' = "returned"
    /\ UNCHANGED <<request, attempt, replies, blockvars>>
    /\ UNCHANGED <<textvars, file, dpc, route, ocr_calls, result, selvars>>

\* if not text.strip() and not refined_text.strip(): return an error
QNoText ==
    /\ qpc = "start"
    /\ ~request.extra_keywords
    /\ ~request.has_text
    /\ answer' = ErrorAnswer("No text content provided")
    /\ qpc' = "returned"
    /\ UNCHANGED <<request, attempt, replies, blockvars>>
    /\ UNCHANGED <<textvars, file, dpc, route, ocr_calls, result, selvars>>

\* if not os.getenv("GROQ_API_KEY"): return an error
QNoKey ==
    /\ qpc = "start"
    /\ ~request.extra_keywords
    /\ request.has_text
    /\ ~request.has_key
    /\ answer' = ErrorAnswer("GROQ_API_KEY not found")
    /\ qpc' = "returned"
    /\ UNCHANGED <<request, attempt, replies, blockvars>>
    /\ UNCHANGED <<textvars, file, dpc, route, ocr_calls, result, selvars>>

\* the prompt is built and the loop starts: for attempt in range(max_retries + 1)
QStart ==
    /\ qpc = "start"
    /\ ~request.extra_keywords
    /\ request.has_text
    /\ request.has_key
    /\ attempt' = 0
    /\ qpc' = "loop"
    /\ UNCHANGED <<request, replies, answer, blockvars>>
    /\ UNCHANGED <<textvars, file, dpc, route, ocr_calls, result, selvars>>

\* A failed attempt: the error is returned if attempt == max_retries, else
\* `continue`.
QFails(reply, message) ==
    /\ replies' = Append(replies, reply)
    /\ IF attempt = request.max_retries
       THEN /\ answer' = ErrorAnswer(message)
            /\ qpc' = "returned"
            /\ UNCHANGED attempt
       ELSE /\ attempt' = attempt + 1
            /\ UNCHANGED <<answer, qpc>>
    /\ UNCHANGED <<request, blockvars>>
    /\ UNCHANGED <<textvars, file, dpc, route, ocr_calls, result, selvars>>

\* groq_client.chat.completions.create raises: except Exception
QRaises ==
    /\ qpc = "loop"
    /\ attempt <= request.max_retries
    /\ QFails("raise", "Error generating questions")

\* the completion has no choices or no content
QEmpty ==
    /\ qpc = "loop"
    /\ attempt <= request.max_retries
    /\ QFails("empty", "Empty response from Groq API")

\* json.loads(content) raises: except json.JSONDecodeError
QInvalidJson ==
    /\ qpc = "loop"
    /\ attempt <= request.max_retries
    /\ QFails("nojson", "Invalid JSON response")

\* The replies that json.loads reads: a list of at most MaxItems values, or
\* one object that is not in a list.  The values: one that is not an object,
\* a well-formed MCQ, an object with "correct" and two "options" and a blank
\* question, one without an answer, one with five choices, one whose
\* rationale is null, and one whose answer is the letter of a blank choice.
MaxItems == 2
JsonObject(q, a, c, ch, o, r) ==
    [isdict |-> TRUE, question |-> q, answer |-> a, correct |-> c,
     choices |-> ch, options |-> o, rationale |-> r]
JsonValues ==
    {[isdict |-> FALSE, question |-> Absent, answer |-> Absent, correct |-> Absent,
      choices |-> NoList, options |-> NoList, rationale |-> Absent],
     JsonObject(Str(<<"q">>), Str(<<"A">>), Absent,
                List(<<<<"w">>, <<"x">>, <<"y">>, <<"z">>>>), NoList, Str(<<"r">>)),
     JsonObject(Str(<<" ">>), Absent, Str(<<"t", " ">>),
                NoList, List(<<<<"w">>, <<"x">>>>), Absent),
     JsonObject(Str(<<"q">>), Absent, Absent, NoList, NoList, Str(<<"r">>)),
     JsonObject(Str(<<"q">>), Str(<<"B">>), Absent,
                List(<<<<"v">>, <<"w">>, <<"x">>, <<"y">>, <<"z">>>>), NoList, Str(<<"r">>)),
     JsonObject(Str(<<"q">>), Str(<<"A">>), Absent,
                List(<<<<"w">>, <<"x">>, <<"y">>, <<"z">>>>), NoList, Null),
     JsonObject(Str(<<"q">>), Str(<<"A">>), Absent,
                List(<<<<" ">>, <<"x">>>>), NoList, Str(<<"r">>))}
JsonReplies ==
    {[is_list |-> TRUE, values |-> v] : v \in SeqsUpTo(JsonValues, MaxItems)}
    \cup {[is_list |-> FALSE, values |-> <<v>>] : v \in JsonValues}

\* json.loads reads the reply, but a value of it makes .strip() raise:
\* except Exception
QUnusable ==
    /\ qpc = "loop"
    /\ attempt <= request.max_retries
    /\ \E reply \in JsonReplies : ProcessingRaises(reply.values)
    /\ QFails("json", "Error generating questions")

\* json.loads reads the reply and the questions are processed:
\* return json.dumps(processed_questions[:num_questions])
QQuestions ==
    /\ qpc = "loop"
    /\ attempt <= request.max_retries
    /\ \E reply \in JsonReplies :
           /\ ~ProcessingRaises(reply.values)
           /\ answer' = [kind |-> "questions",
                         questions |-> FirstQuestions(
                             ProcessedQuestions(reply.values, request.qtype),
                             request.num_questions),
                         error |-> "none"]
    /\ replies' = Append(replies, "json")
    /\ qpc' = "returned"
    /\ UNCHANGED <<request, attempt, blockvars>>
    /\ UNCHANGED <<textvars, file, dpc, route, ocr_calls, result, selvars>>

\* range(max_retries + 1) is empty: the return after the loop
QNoAttempt ==
    /\ qpc = "loop"
    /\ attempt > request.max_retries
    /\ answer' = ErrorAnswer("Failed to generate questions after multiple attempts")
    /\ qpc' = "returned"
    /\ UNCHANGED <<request, attempt, replies, blockvars>>
    /\ UNCHANGED <<textvars, file, dpc, route, ocr_calls, result, selvars>>

NextQ ==
    \/ QBadCall
    \/ QNoText
    \/ QNoKey
    \/ QStart
    \/ QRaises
    \/ QEmpty
    \/ QInvalidJson
    \/ QUnusable
    \/ QQuestions
    \/ QNoAttempt

\* The calls: with the keywords of the signature only (as the test calls
\* it) or with others too (as the routers call it), with or without text,
\* with or without the API key, for
\* multiple-choice or true/false questions, for at most MaxQuestions
\* questions and at most MaxRetries retries (-1: no attempt at all).
MaxQuestions == 2
MaxRetries == 2
Requests ==
    [extra_keywords : BOOLEAN, has_text : BOOLEAN, has_key : BOOLEAN,
     qtype : {"mcq", "true_false"},
     num_questions : 0..MaxQuestions, max_retries : -1..MaxRetries]

InitQ ==
    /\ request \in Requests
    /\ qpc = "start"
    /\ attempt = 0
    /\ replies = << >>
    /\ answer = NoAnswer
    /\ ocr_data = << >>
    /\ filtered = << >>
    /\ grouped = << >>
    /\ bpc = "off"
    /\ attempts = NoAttempts
    /\ spc = "off"
    /\ cand = 0
    /\ best_text = << >>
    /\ best_score = ZeroScore
    /\ selections = << >>
    /\ input = << >>
    /\ text = << >>
    /\ pc = "off"
    /\ op = "none"
    /\ stages = 0
    /\ round = 1
    /\ split = << >>
    /\ file = NoFile
    /\ dpc = "off"
    /\ route = "none"
    /\ ocr_calls = 0
    /\ result = NoResult

SpecQ == InitQ /\ [][NextQ]_vars

(***************************************************************************)
(* Properties.                                                             *)
(***************************************************************************)
\* ultimate_text_correction has returned.
Returned == pc = "done" /\ op = "ultimate_text_correction"

\* The first call (on the input drawn by Init) has returned.
ReturnedFirst == Returned /\ round = 1

Last(s) == s[Len(s)]

\* The maximal runs of digits of s that hold at least n digits.
DigitRuns(s, n) ==
    { Slice(s, r[1], r[2]) : r \in
        { q \in (1..Len(s)) \X (2..(Len(s) + 1)) :
            /\ q[2] - q[1] >= n
            /\ \A k \in q[1]..(q[2] - 1) : IsDigit(s[k])
            /\ ~IsDigit(At(s, q[1] - 1))
            /\ ~IsDigit(At(s, q[2])) } }

\* The numeral tokens of s: the maximal runs of digits that are whole words.
NumeralTokens(s) ==
    { Slice(s, r[1], r[2]) : r \in
        { q \in (1..Len(s)) \X (2..(Len(s) + 1)) :
            /\ q[2] > q[1]
            /\ \A k \in q[1]..(q[2] - 1) : IsDigit(s[k])
            /\ ~IsWordChar(At(s, q[1] - 1))
            /\ ~IsWordChar(At(s, q[2])) } }

\* s is made of whitespace only (the empty text included).
IsBlank(s) == \A k \in 1..Len(s) : IsSpace(s[k])

\* C1: idempotence.  A second call of the pipeline, on the result of the
\* first call, returns its argument unchanged.
C1_Idempotent == (Returned /\ round = 2) => text = input

\* C2: digit preservation.  Every maximal run of two or more digits of the
\* input is a maximal run of digits of the pipeline's result.
C2_DigitRunsKept ==
    ReturnedFirst => \A r \in DigitRuns(input, 2) : r \in DigitRuns(text, 1)

\* C3: number preservation in the first two stages.  After
\* fix_character_substitutions and fix_severe_distortions every numeral token
\* of the input, single digits included, is still a numeral token of the text.
C3_NumeralsKept ==
    (op = "ultimate_text_correction" /\ round = 1 /\ stages = 2)
        => \A n \in NumeralTokens(input) : n \in NumeralTokens(text)

\* C4 as stated: a non-empty input that does not end in punctuation gives a
\* result that ends with '.', '!' or '?'.
C4_EndsWithMark ==
    (ReturnedFirst /\ input # << >> /\ (IsWordChar(Last(input)) \/ IsSpace(Last(input))))
        => (text # << >> /\ IsSentenceEnd(Last(text)))

\* The characters whose presence keeps the result from being empty: all but
\* whitespace and the brackets [ ] { } < > that stage 6 deletes.
Survives(c) == ~IsSpace(c) /\ c \notin Brackets

\* C4 as amended: an input that holds at least one character other than
\* whitespace and the brackets [ ] { } < > gives a result that ends with '.',
\* '!' or '?'; any other input gives the empty text.
C4_EndsWithMarkOrEmpty ==
    ReturnedFirst =>
        IF \E k \in 1..Len(input) : Survives(input[k])
        THEN text # << >> /\ IsSentenceEnd(Last(text))
        ELSE text = << >>

\* C4 witness: an input that ends in a letter or a parenthesis has been
\* corrected, and the result ends with a sentence mark.
C4_Witness ==
    /\ ReturnedFirst
    /\ input # << >>
    /\ Last(input) \in {"a", ")"}
    /\ text # << >>
    /\ IsSentenceEnd(Last(text))

\* C5 as stated: for an empty or whitespace-only input the call returns the
\* empty text without invoking any stage.
C5_NoStageOnBlank ==
    (op = "ultimate_text_correction" /\ round = 1 /\ IsBlank(input))
        => (stages = 0 /\ (pc = "done" => text = << >>))

\* C5 as amended: for an empty or whitespace-only input the call returns the
\* empty text; it invokes no stage when the input is empty, and all ten
\* stages when the input is whitespace.
C5_BlankGivesEmpty ==
    (ReturnedFirst /\ IsBlank(input))
        => /\ text = << >>
           /\ stages = (IF input = << >> THEN 0 ELSE 10)

\* C5 witness: a whitespace-only input has gone through the pipeline.
C5_Witness ==
    /\ ReturnedFirst
    /\ input # << >>
    /\ IsBlank(input)
    /\ text = << >>

\* C6: paragraph-break preservation.  When format_titles_and_paragraphs
\* returned a text with a double newline, the result of the pipeline still
\* holds a double newline.
C6_BreakKept ==
    (ReturnedFirst /\ Contains(split, <<NL, NL>>)) => Contains(text, <<NL, NL>>)

\* A word (a maximal run of word characters) starts at position i of s.
WordStartsAt(s, i) == WordBoundary(s, i) /\ IsWordChar(s[i])
WordAt(s, i) == Slice(s, i, SkipWord(s, i))

\* Where the word after the word at i starts, when it is the same word
\* (compared without case) and only whitespace separates them; else 0.
NextRepeat(s, i) ==
    LET n == SkipWord(s, i) - i
        j == SkipSpace(s, i + n)
    IN  IF j > i + n /\ StartsWith(s, j, WordAt(s, i), TRUE) /\ WordBoundary(s, j + n)
        THEN j ELSE 0

\* The word at i is an immediate repetition of the word before it.
Repeats(s, i) == \E j \in 1..(i - 1) : WordStartsAt(s, j) /\ NextRepeat(s, j) = i

\* How many times in a row the word at i occurs from i on.
RunLength(s, i) ==
    LET count[p \in 1..Len(s)] ==
            IF NextRepeat(s, p) = 0 THEN 1 ELSE 1 + count[NextRepeat(s, p)]
    IN  count[i]

\* s holds an adjacent pair 'w w' (compared without case).
HasPair(s, w) ==
    \E i \in 1..Len(s) :
        /\ WordStartsAt(s, i)
        /\ LowerText(WordAt(s, i)) = LowerText(w)
        /\ NextRepeat(s, i) > 0

\* The letters of s in order, in lower case.
LettersOf(s) == SelectSeq(LowerText(s), IsLower)

\* The inputs of C7: letters, spaces and punctuation, no character three
\* times in a row, no word immediately repeated.
PlainText(s) ==
    /\ \A k \in 1..Len(s) : IsLetter(s[k]) \/ s[k] = " " \/ IsPunct(s[k])
    /\ \A k \in 1..(Len(s) - 2) : ~(s[k] = s[k + 1] /\ s[k + 1] = s[k + 2])
    /\ \A k \in 1..Len(s) : ~(WordStartsAt(s, k) /\ NextRepeat(s, k) > 0)

\* C7: content preservation.  For an input of letters, spaces and
\* punctuation with no character three times in a row and no word
\* immediately repeated, the letters of the result are the letters of the
\* input in the same order (case aside), apart from the repair mak -> make.
C7_LettersKept ==
    (ReturnedFirst /\ PlainText(input))
        => LettersOf(text)
             = LettersOf(SubWholeWord(input, <<"m", "a", "k">>, <<"m", "a", "k", "e">>))

\* C8: repeated-word collapse.  When a word occurs 2 or 3 times in a row in
\* the input, the result of fix_repeated_words, and of the pipeline, holds
\* no adjacent pair of that word.
C8_NoPairLeft ==
    (pc = "done" /\ round = 1 /\ op \in {"fix_repeated_words", "ultimate_text_correction"}) =>
        \A i \in 1..Len(input) :
            (WordStartsAt(input, i) /\ ~Repeats(input, i)
                /\ RunLength(input, i) \in {2, 3})
            => ~HasPair(text, WordAt(input, i))

\* C9: merged-word separation.  The result of the pipeline holds no
\* lower-case letter immediately followed by an upper-case letter.
C9_NoCaseMerge ==
    ReturnedFirst =>
        \A k \in 1..(Len(text) - 1) : ~(IsLower(text[k]) /\ IsUpper(text[k + 1]))

\* The word w occupies s[i..i+Len(w)-1], in the letter case of w.
IsWordAt(s, i, w) ==
    WordBoundary(s, i) /\ StartsWith(s, i, w, FALSE) /\ WordBoundary(s, i + Len(w))

\* C10 as stated: an allow-listed acronym that occurs in the input as an
\* upper-case word is present in upper case in the result.
C10_AcronymKept ==
    ReturnedFirst =>
        \A w \in acronyms :
            (\E i \in 1..Len(input) : IsWordAt(input, i, w)) => Contains(text, w)

\* The text as fix_repeated_words leaves it, after stages 1 to 3.
AfterCollapse(s) ==
    fix_repeated_words(fix_severe_distortions(fix_character_substitutions(s)))

\* s holds the word w, in the letter case of w.
HasWord(s, w) == \E i \in 1..Len(s) : IsWordAt(s, i, w)

\* C10 as amended: an allow-listed acronym that occurs in the input as an
\* upper-case word, and that the repeated-word collapse of stage 3 does not
\* remove as a repetition (compared without case) of the word before it, is
\* present in upper case in the result.
C10_AcronymKeptAfterCollapse ==
    ReturnedFirst =>
        \A w \in acronyms :
            (HasWord(input, w) /\ HasWord(AfterCollapse(input), w))
                => Contains(text, w)

\* C10 witness: the acronym stood in the input after the same word in lower
\* case, survived the collapse of stage 3, and the result holds both.
C10_Witness ==
    /\ ReturnedFirst
    /\ HasWord(input, <<"c", "s", "s">>)
    /\ \E i \in 4..Len(input) : IsWordAt(input, i, <<"C", "S", "S">>)
    /\ HasWord(AfterCollapse(input), <<"C", "S", "S">>)
    /\ Contains(text, <<"C", "S", "S">>)

\* The direct call of format_titles_and_paragraphs on the input has returned.
ReturnedTitles == pc = "done" /\ op = "format_titles_and_paragraphs"

\* text.endswith(('.', '!', '?'))
EndsInMark(s) == s # << >> /\ IsSentenceEnd(Last(s))

\* C11 as stated: for a text of 8 words or fewer,
\* format_titles_and_paragraphs returns the text itself when it ends in '.',
\* '!' or '?', and the text with a period appended when it does not; it
\* inserts no double newline.
C11_ShortTextKept ==
    (ReturnedTitles /\ Len(Words(input)) <= 8)
        => text = (IF EndsInMark(input) THEN input ELSE Append(input, "."))

\* C11 as amended: for a non-empty text of 8 words or fewer,
\* format_titles_and_paragraphs returns the text itself when it ends in '.',
\* '!' or '?', and the text with a period appended when it does not; the
\* empty text is returned as it is, with no period.
C11_ShortTextKeptOrEmpty ==
    (ReturnedTitles /\ Len(Words(input)) <= 8)
        => text = (IF input = << >> \/ EndsInMark(input)
                   THEN input ELSE Append(input, "."))

\* C11 witness: a text of 6 to 8 words that holds the title keyword 'api' in
\* its first three words came back with only a period appended.
C11_Witness ==
    /\ ReturnedTitles
    /\ Len(Words(input)) \in 6..8
    /\ Words(input)[1] = <<"a", "p", "i">>
    /\ text = Append(input, ".")

\* extract_text_from_path has returned.
Extracted == dpc = "returned"

\* The units of a PDF: the images of its first pages, in (page, image) order.
Units(f) ==
    LET upto[k \in 0..Len(f.pages)] ==
            IF k = 0 THEN << >>
            ELSE IF k <= MaxOcrPages THEN upto[k - 1] \o f.pages[k].images
            ELSE upto[k - 1]
    IN  upto[Len(f.pages)]

\* The letters the OCR engine reads from the units that yield text, in
\* (page, image) order.
UnitLetters(f) ==
    LET good == SelectSeq(Units(f), LAMBDA u : u.kind = "text")
    IN  Concat([k \in 1..Len(good) |-> good[k].raw])

\* The PDF has no text on any page: its text can only come from its images.
ImageOnly(f) ==
    /\ LowerText(f.ext) = <<".", "p", "d", "f">>
    /\ f.opens
    /\ \A k \in 1..Len(f.pages) : Strip(f.pages[k].text) = << >>

\* The characters of sub occur in s, in the order of sub.
InOrder(sub, s) ==
    LET pos[k \in 0..Len(sub)] ==
            IF k = 0 THEN 0
            ELSE LET later == {i \in (pos[k - 1] + 1)..Len(s) : s[i] = sub[k]}
                 IN  IF later = {} THEN Len(s) + 1
                     ELSE CHOOSE i \in later : \A j \in later : i <= j
    IN  pos[Len(sub)] <= Len(s)

\* C12: page order.  For an image-only PDF whose units yield text, the text
\* extract returns holds the texts of the units in increasing (page, image)
\* order.
C12_UnitsInPageOrder ==
    (Extracted /\ ImageOnly(file) /\ UnitLetters(file) # << >>)
        => (result.text # << >> /\ InOrder(UnitLetters(file), result.text))

\* C13: partial failure.  For an image-only PDF with several units of which
\* at least one fails and at least one yields text, extract returns a
\* non-empty text that holds the texts of the successful units in order,
\* with the confidence 'medium' or 'low'.
C13_PartialFailureAbsorbed ==
    (/\ Extracted
     /\ ImageOnly(file)
     /\ \E k \in 1..Len(Units(file)) : Units(file)[k].kind = "raise"
     /\ \E k \in 1..Len(Units(file)) : Units(file)[k].kind = "text")
        => /\ result.text # << >>
           /\ InOrder(UnitLetters(file), result.text)
           /\ result.confidence \in {"medium", "low"}

\* No unit of the file yields text: the file cannot be opened, or it is an
\* image from which the OCR engine raises or reads nothing, or it is an
\* image-only PDF with images from all of which the OCR engine raises.
AllUnitsFail(f) ==
    \/ ~f.opens
    \/ /\ LowerText(f.ext) # <<".", "p", "d", "f">>
       /\ (f.ocr.kind = "raise" \/ Strip(f.ocr.raw) = << >>)
    \/ /\ ImageOnly(f)
       /\ Units(f) # << >>
       /\ \A k \in 1..Len(Units(f)) : Units(f)[k].kind = "raise"

\* C14: total failure.  When no unit of the document yields text, the
\* result extract returns has the confidence 'error'.
C14_TotalFailureIsError ==
    (Extracted /\ AllUnitsFail(file)) => result.confidence = "error"

\* C15: a hung unit does not block the document.  When the OCR invocation
\* that extract awaits never completes, extract still returns in the end.
C15_HungUnitAbandoned ==
    (dpc = "ocr_wait" /\ file.ocr.kind = "hang") ~> Extracted

\* A page of the PDF has a text layer (text that is not only whitespace).
HasTextLayer(f) == \E k \in 1..Len(f.pages) : Strip(f.pages[k].text) # << >>

\* The path ends in .pdf, in any letter case.
EndsInPdf(f) == LowerText(f.ext) = <<".", "p", "d", "f">>

\* C16: file-type routing.  A path ending in .pdf (any letter case) is sent
\* to the PDF extractor and every other path to the image extractor; for a
\* PDF with text on some page the OCR engine is never invoked and the text
\* returned is the directly extracted one; _ocr_pdf_images is reached only
\* for a PDF with no text on any page.
C16_Routing ==
    /\ (dpc # "start") => (route = (IF EndsInPdf(file) THEN "pdf" ELSE "image"))
    /\ (EndsInPdf(file) /\ HasTextLayer(file))
          => /\ ocr_calls = 0
             /\ dpc # "ocr_pdf_images"
             /\ Extracted => result.description = "Extracted and ultimate-corrected text"
    /\ (dpc = "ocr_pdf_images") => (EndsInPdf(file) /\ ~HasTextLayer(file))

\* C16 witness: a path ending in .PDF, one page with text and one page with
\* an image only: the text came from direct extraction, without OCR.
C16_Witness ==
    /\ Extracted
    /\ file.ext = <<".", "P", "D", "F">>
    /\ HasTextLayer(file)
    /\ \E k \in 1..Len(file.pages) : file.pages[k].images # << >>
    /\ route = "pdf"
    /\ ocr_calls = 0
    /\ result.description = "Extracted and ultimate-corrected text"
    /\ result.text # << >>

\* C17: no high confidence on partial or empty text.  When extract returns
\* the confidence 'high', the text is not empty and every page of the
\* document has contributed text.
C17_HighMeansComplete ==
    (Extracted /\ result.confidence = "high")
        => /\ result.text # << >>
           /\ \A k \in 1..Len(file.pages) : Strip(file.pages[k].text) # << >>

\* The texts of the candidates that yield one, in the order the loop tries
\* the candidates.
CandidateTexts(a) ==
    LET n == NumImages * NumConfigs
        txt(k) == current_text(process_ocr_result(Attempt(a, k).words))
        upto[k \in 0..n] ==
            IF k = 0 THEN << >>
            ELSE IF Attempt(a, k - 1).kind = "data" /\ txt(k - 1) # << >>
                 THEN Append(upto[k - 1], txt(k - 1))
            ELSE upto[k - 1]
    IN  upto[n]

\* The call of the selection has returned for an image that could be read.
Selected == spc = "returned" /\ attempts.readable

\* C18: deterministic candidate selection.  When some candidate yields a
\* text, the loop ends with the text of the first candidate among those of
\* the highest score; a second selection on the same candidates ends with
\* the same text.
C18_FirstBestSelected ==
    Selected =>
        LET texts == CandidateTexts(attempts)
            last == selections[Len(selections)]
        IN  /\ texts # << >> =>
                \E k \in 1..Len(texts) :
                    /\ last.ok
                    /\ last.text = texts[k]
                    /\ \A j \in 1..Len(texts) :
                           ~ScoreGreater(Score(texts[j]), Score(texts[k]))
                    /\ \A j \in 1..(k - 1) :
                           ScoreGreater(Score(texts[k]), Score(texts[j]))
            /\ \A i \in 1..Len(selections) : selections[i] = last

\* The direct call of fix_capitalization on the input has returned.
ReturnedCapitalization == pc = "done" /\ op = "fix_capitalization"

\* The positions at which a sentence of s begins: the first position and
\* the position after each '.', '!' or '?'.
SentenceStarts(s) == {1} \cup {i + 1 : i \in {j \in 1..Len(s) : IsSentenceEnd(s[j])}}

\* Every sentence of s that begins with a letter (after whitespace, if any)
\* begins with an upper-case letter.
StartsUpper(s) ==
    \A p \in SentenceStarts(s) :
        LET q == SkipSpace(s, p)
        IN  (q <= Len(s) /\ IsLetter(s[q])) => IsUpper(s[q])

\* C19: sentence-start capitalization.  In the text fix_capitalization
\* returns, and in the text the pipeline returns, the first letter of the
\* text and the first letter after each '.', '!' or '?' are upper case.
C19_SentenceStartsUpper ==
    (ReturnedCapitalization \/ ReturnedFirst) => StartsUpper(text)

\* s holds cased characters and none of them is lower case: str.isupper
IsUpperText(s) ==
    /\ \E k \in 1..Len(s) : IsUpper(s[k])
    /\ \A k \in 1..Len(s) : ~IsLower(s[k])

\* A word of upper-case letters only, longer than 2 characters, that is not
\* on the acronym allow-list.
SpuriousCaps(w) ==
    /\ Len(w) > 2
    /\ \A k \in 1..Len(w) : IsUpper(w[k])
    /\ w \notin acronyms

\* C20: spurious all-caps are down-cased.  In the text fix_capitalization
\* returns, a word of the input that is entirely upper case, longer than 2
\* characters and not on the allow-list is no longer all upper case, and an
\* acronym of the allow-list is as it was.
C20_SpuriousCapsDowncased ==
    ReturnedCapitalization =>
        LET before == Words(input)
            after == Words(text)
        IN  /\ Len(after) = Len(before)
            /\ \A k \in 1..Len(before) :
                   /\ SpuriousCaps(before[k]) => ~IsUpperText(after[k])
                   /\ before[k] \in acronyms => after[k] = before[k]

\* The score the split rule gives to the split after the first i words, when
\* a content indicator counts among the first `ahead` words of the content:
\* 2 for a title keyword in the title, 2 for the content indicator, 1 for a
\* title of at most 5 words, 3 for a content indicator right at the boundary.
RuleScore(words, i, ahead) ==
    (IF \E k \in title_keywords :
            Contains(LowerText(Join(SubSeq(words, 1, i), <<" ">>)), k)
     THEN 2 ELSE 0)
  + (IF \E j \in 1..ahead :
            i + j <= Len(words) /\ LowerText(words[i + j]) \in content_indicators
     THEN 2 ELSE 0)
  + (IF i <= 5 THEN 1 ELSE 0)
  + (IF LowerText(words[i + 1]) \in content_indicators THEN 3 ELSE 0)

\* The split position of the rule: the earliest of the positions 3..7 with
\* the highest score when that score is at least 3, else 0 (no split).
RuleSplit(words, ahead) ==
    LET top == CHOOSE i \in 3..7 :
                   /\ \A j \in 3..7 : RuleScore(words, j, ahead) <= RuleScore(words, i, ahead)
                   /\ \A j \in 3..(i - 1) : RuleScore(words, j, ahead) < RuleScore(words, i, ahead)
    IN  IF RuleScore(words, top, ahead) >= 3 THEN top ELSE 0

\* The number of words of the title in t (the text before the first double
\* newline), 0 when t holds no double newline.
TitleLength(t) ==
    IF Contains(t, <<NL, NL>>) THEN Len(Words(SplitOn(t, <<NL, NL>>)[1])) ELSE 0

ReturnedPunctuation == pc = "done" /\ op = "clean_punctuation_symbols"

\* C22: punctuation spacing after stage 6.  In the text
\* clean_punctuation_symbols returns, no whitespace stands right before one
\* of . , ! ? ; : and each of these marks that is not the last character is
\* followed by exactly one space.
C22_PunctuationSpacing ==
    ReturnedPunctuation =>
        \A i \in 1..Len(text) :
            IsPunct(text[i]) =>
                /\ ~IsSpace(At(text, i - 1))
                /\ i < Len(text) => (text[i + 1] = " " /\ ~IsSpace(At(text, i + 2)))

\* The characters the allow-list of stage 6 names: letters, digits,
\* whitespace and . , ! ? ; : - ' " ( ).
OnAllowList(c) ==
    \/ IsLetter(c)
    \/ IsDigit(c)
    \/ IsSpace(c)
    \/ c \in {".", ",", "!", "?", ";", ":", "-", AP, DQ, "(", ")"}

\* C23: allow-list stripping in stage 6.  The text clean_punctuation_symbols
\* returns holds only characters of the allow-list.
C23_OnlyAllowedLeft ==
    ReturnedPunctuation => \A i \in 1..Len(text) : OnAllowList(text[i])

\* The direct call of fix_repeated_words on the input has returned.
ReturnedRepeatedWords == pc = "done" /\ op = "fix_repeated_words"

\* C24: a word repeated 3 or more times in a row is collapsed.  When a word
\* occurs 3 or more times in a row in the input, the text fix_repeated_words
\* returns holds no adjacent pair of that word.
C24_LongRunsCollapsed ==
    ReturnedRepeatedWords =>
        \A i \in 1..Len(input) :
            (WordStartsAt(input, i) /\ ~Repeats(input, i) /\ RunLength(input, i) >= 3)
            => ~HasPair(text, WordAt(input, i))

\* The direct call of fix_severe_distortions on the input has returned.
ReturnedDistortions == pc = "done" /\ op = "fix_severe_distortions"

\* s holds the same character, not a newline, three times in a row.
HasRunOfThree(s) ==
    \E i \in 1..(Len(s) - 2) : s[i] # NL /\ s[i + 1] = s[i] /\ s[i + 2] = s[i]

\* s with every run of three or more of the same character, not a newline,
\* reduced to two of it.
RunsReduced(s) ==
    LET upto[k \in 0..Len(s)] ==
            IF k = 0 THEN << >>
            ELSE IF k >= 3 /\ s[k] # NL /\ s[k - 1] = s[k] /\ s[k - 2] = s[k]
                 THEN upto[k - 1]
            ELSE Append(upto[k - 1], s[k])
    IN  upto[Len(s)]

\* s holds no digit, no whitespace and no punctuation mark: of the patterns
\* of fix_severe_distortions only the one for repeated characters applies.
OnlyRuns(s) == \A i \in 1..Len(s) : ~IsDigit(s[i]) /\ ~IsSpace(s[i]) /\ ~IsPunct(s[i])

\* C25: repeated-character collapse.  The text fix_severe_distortions
\* returns holds no character three times in a row; in a text on which no
\* other pattern applies, every run of three or more is reduced to two of
\* the character and nothing else is changed.
C25_RunsReducedToTwo ==
    ReturnedDistortions =>
        /\ ~HasRunOfThree(text)
        /\ OnlyRuns(input) => text = RunsReduced(input)

\* C26: empty candidates score strictly lowest.  The selection returns a
\* text that is not empty whenever some candidate has a text left after the
\* confidence filter, be it a text without any letter or digit, and it
\* returns the failure signal only when no candidate has one.
C26_NonEmptyBeatsEmpty ==
    Selected =>
        LET last == selections[Len(selections)]
        IN  (CandidateTexts(attempts) # << >>) <=> (last.ok /\ last.text # << >>)

\* The number of letters and digits of a text.
AlnumCount(txt) == Cardinality({i \in 1..Len(txt) : IsLetter(txt[i]) \/ IsDigit(txt[i])})

\* Every character of the text is a letter, a digit, whitespace or basic
\* punctuation: the text has no character that the scoring penalizes.
AllAllowed(txt) == \A i \in 1..Len(txt) : OnAllowList(txt[i])

\* C27: scoring formula.  The score of a text is its count of letters and
\* digits minus a penalty for the characters outside the allowed set: among
\* candidates whose characters are all allowed, the selected text is one
\* with the most letters and digits.
C27_MostAlnumSelected ==
    Selected =>
        LET texts == CandidateTexts(attempts)
            last == selections[Len(selections)]
        IN  (\A j \in 1..Len(texts) : AllAllowed(texts[j]))
            => \A j \in 1..Len(texts) : AlnumCount(last.text) >= AlnumCount(texts[j])

\* group_text_blocks has returned for the blocks process_ocr_result kept.
Grouped == bpc = "grouped"

\* How many times the token b occurs in the sequence s.
Occurrences(s, b) == Cardinality({i \in 1..Len(s) : s[i] = b})

\* The same tokens, each as many times, in s and in t.
SameTokens(s, t) ==
    /\ Len(s) = Len(t)
    /\ \A i \in 1..Len(s) : Occurrences(s, s[i]) = Occurrences(t, s[i])

\* The tokens of all lines, line after line.
Flat(lns) ==
    LET upto[k \in 0..Len(lns)] ==
            IF k = 0 THEN << >> ELSE upto[k - 1] \o lns[k]
    IN  upto[Len(lns)]

\* The y of the topmost token of a line.
TopOf(line) == CHOOSE y \in {line[i].y : i \in 1..Len(line)} :
                   \A i \in 1..Len(line) : y <= line[i].y

\* The token b joins the line whose last added token is a: their y differ
\* by less than half the height of a.
Joins(b, a) ==
    IF b.y >= a.y THEN 2 * (b.y - a.y) < a.h ELSE 2 * (a.y - b.y) < a.h

\* The places of the sequence s, taken top to bottom and left to right,
\* after which a line ends: the last place, and each place whose next token
\* does not join.
LineEnds(s) == {k \in 1..Len(s) : k = Len(s) \/ ~Joins(s[k + 1], s[k])}

\* The j-th smallest of a set of numbers.
Nth(S, j) == CHOOSE c \in S : Cardinality({d \in S : d <= c}) = j

\* C28: reading-order reconstruction.  The lines group_text_blocks returns
\* hold every token once; in a line the x of the tokens does not decrease;
\* the y of the topmost token does not decrease from line to line; and,
\* taking the tokens top to bottom and left to right, a token is in the line
\* of the token added before it exactly when its y differs from that
\* token's y by less than half that token's height.
C28_ReadingOrder ==
    Grouped =>
        LET s == SortByYX(filtered)
            ends == LineEnds(s)
        IN  /\ SameTokens(Flat(grouped), filtered)
            /\ \A j \in 1..Len(grouped) :
                   /\ grouped[j] # << >>
                   /\ \A i \in 1..(Len(grouped[j]) - 1) :
                          grouped[j][i].x <= grouped[j][i + 1].x
            /\ \A j \in 1..(Len(grouped) - 1) :
                   TopOf(grouped[j]) <= TopOf(grouped[j + 1])
            /\ Len(grouped) = Cardinality(ends)
            /\ \A j \in 1..Len(grouped) :
                   SameTokens(grouped[j],
                              SubSeq(s, IF j = 1 THEN 1 ELSE Nth(ends, j - 1) + 1,
                                     Nth(ends, j)))

\* C28 witness: three tokens given out of order have been grouped into two
\* lines, the first of which holds a token that is 5 below the first token
\* of the line: it joined after a token that is 4 below.
C28_Witness ==
    /\ Grouped
    /\ Len(filtered) = 3
    /\ filtered[1].y > filtered[2].y
    /\ Len(grouped) = 2
    /\ Len(grouped[1]) = 2
    /\ \E i, j \in 1..2 : grouped[1][i].y = 0 /\ grouped[1][j].y = 5
    /\ grouped[2][1].y = 12

\* process_ocr_result has returned.
Filtered == bpc \in {"filtered", "grouped"}

\* The detection is kept: its text is not blank, and its confidence is at
\* or above the threshold or its text, without the whitespace around it,
\* has 3 or more characters.
Kept(w) ==
    /\ \E i \in 1..Len(w.text) : ~IsSpace(w.text[i])
    /\ (w.conf >= 30 \/ Len(Strip(w.text)) >= 3)

\* C29: word-confidence filter.  process_ocr_result returns, in the order
\* of the input, the detections that are not blank and that do not have
\* both a confidence below 0.3 and a text shorter than 3 characters; it
\* drops the others.
C29_ConfidenceFilter ==
    Filtered =>
        LET kept == SelectSeq(ocr_data, Kept)
        IN  /\ Len(filtered) = Len(kept)
            /\ \A k \in 1..Len(kept) :
                   /\ filtered[k].text = Strip(kept[k].text)
                   /\ filtered[k].conf = kept[k].conf
                   /\ filtered[k].x = kept[k].left
                   /\ filtered[k].y = kept[k].top
                   /\ filtered[k].h = kept[k].height

\* C29 witness: of a blank detection, a word of 2 characters and a word of
\* 3 characters, all below the threshold, only the last one has been kept.
C29_Witness ==
    /\ Filtered
    /\ Len(ocr_data) = 3
    /\ \A k \in 1..3 : ocr_data[k].conf = 29
    /\ ocr_data[1].text = <<" ">>
    /\ ocr_data[2].text = <<"a", "b">>
    /\ ocr_data[3].text = <<"a", "b", "c">>
    /\ Len(filtered) = 1
    /\ filtered[1].text = <<"a", "b", "c">>

\* generate_questions_from_content has returned.
Generated == qpc = "returned"

\* C30: bounded retry of question generation.  The language model is called
\* at most max_retries + 1 times and is not called again after a reply that
\* parses as JSON; the call returns either a list of at most num_questions
\* questions, each multiple-choice question with exactly 4 choices, or an
\* error; it never raises.
C30_BoundedRetry ==
    /\ Len(replies) <= request.max_retries + 1
    /\ \A k \in 1..(Len(replies) - 1) : replies[k] # "json"
    /\ Generated =>
           \/ /\ answer.kind = "questions"
              /\ Len(answer.questions) <= request.num_questions
              /\ \A k \in 1..Len(answer.questions) :
                     answer.questions[k].qtype = "mcq"
                         => Len(answer.questions[k].choices) = 4
           \/ /\ answer.kind = "error"
              /\ answer.questions = << >>

====
